---- MODULE Spec2Model ----
(***************************************************************************)
(* Read-through cache, member-count aggregation and invalidation of the    *)
(* organisation directory (views/cache_manager.py, views/manage_units.py,  *)
(* views/manage_workplaces.py, views/manage_people.py, app.py).            *)
(*                                                                         *)
(* The Store (MongoDB) is the variable db: one sequence of documents per   *)
(* collection, in insertion order, as list(db.<collection>.find()) returns *)
(* it.  st[s] is the Streamlit session_state of session s: a function from *)
(* key names to values, so that "k in st.session_state" is                 *)
(* k \in DOMAIN st[s].  A document is a record; a key that a document      *)
(* does not carry is the value Missing, the Python value None is NoneId.   *)
(***************************************************************************)
EXTENDS Integers, Sequences, FiniteSets, TLC

\* ------------------------------------------------------------------ bounds
MaxForv == 1        \* divisions (forvaltningar) ever inserted
MaxAvd == 1         \* departments (avdelningar) ever inserted
MaxEnh == 1         \* units (enheter) ever inserted
MaxAp == 2          \* workplaces (arbetsplatser) ever inserted
MaxPers == 1        \* persons ever inserted
MaxBoards == 1      \* boards ever inserted
MaxMembers == 2     \* largest member count a form field is given
MaxNames == 1       \* workplace names in use
NumSessions == 2    \* browser sessions on the one Store
CacheDocs == 1      \* documents per collection where the cache functions run alone
AggChains == 2      \* divisions, and departments, where the aggregation is studied
AggUnits == 2       \* units under those departments
PeopleNames == 2    \* workplaces of the division where the people screen is studied
PeopleDocs == 2     \* persons ever inserted from the people screen
MaxApplied == 1     \* updates a failing batch write has applied
SessionDocs == 1    \* persons added where two sessions are studied
OrgForv == 2        \* divisions added where the organisation forms are studied
OrgDocs == 1        \* departments, units and persons added there

\* db: the Store; ids: the documents each collection was ever given (the next
\* _id); cap: the documents each collection may be given in this run; st: the
\* session states; paired[s]: the indexes of session s were built from its
\* snapshot; last: the last operation; calls[s]: the call of
\* calculate_member_counts that session s is in, where the steps of the call
\* are taken one Store operation at a time.
VARIABLES db, ids, cap, st, paired, last, calls

vars == <<db, ids, cap, st, paired, last, calls>>

Sessions == 1..NumSessions

\* A session that is in no call of calculate_member_counts.
Idle == [pc |-> "idle", enheter |-> <<>>, avdelningar |-> <<>>, forvaltningar |-> <<>>,
         arbetsplatser |-> <<>>]

NoCalls == [s \in Sessions |-> Idle]

\* A key the document does not have (d['k'] raises KeyError, d.get('k') is None).
Missing == 0 - 1
\* Python None stored as a value ("forvaltning_id": None).
NoneId == 0

Collections == {"forvaltningar", "avdelningar", "enheter", "arbetsplatser",
                "personer", "boards"}

\* ------------------------------------------------------- python primitives
Range(q) == {q[i] : i \in DOMAIN q}

\* dict.get(k, default)
Get(m, k, default) == IF k \in DOMAIN m THEN m[k] ELSE default

\* session_state[k] = v, del session_state[k], session_state.pop(k, None)
SetKey(ss, k, v) == (k :> v) @@ ss
DelKey(ss, k) == [x \in DOMAIN ss \ {k} |-> ss[x]]

RECURSIVE DelKeys(_, _)
DelKeys(ss, ks) ==
    IF ks = {} THEN ss
    ELSE LET k == CHOOSE x \in ks : TRUE IN DelKeys(DelKey(ss, k), ks \ {k})

\* collection.delete_one({"_id": id})
DeleteOne(coll, id) == SelectSeq(coll, LAMBDA d : d.id # id)

\* the _id of every document of a collection
Ids(coll) == {coll[i].id : i \in DOMAIN coll}

\* ------------------------------------------------------------ aggregation
\* isinstance(x, dict) for the value a workplace document holds at a path
\* (<<field>>, <<field, division>> or <<field, division, "enheter">>): the
\* document lists in non_dict the paths at which it holds some other value
\* (a string, a number, a list, None).
IsDict(arbetsplats, path) == path \notin arbetsplats.non_dict

\* A value that is no number (a string, None): adding it to an int raises
\* TypeError.
NotANumber == 0 - 2

\* The division entries of a shared workplace that pass the isinstance tests
\* of lines 82 and 84: the entry is a dict, and its "enheter", if it has one,
\* is a dict.
DictEntries(arbetsplats) ==
    LET m == arbetsplats.medlemmar_per_forvaltning
    IN [f \in {x \in DOMAIN m :
                 /\ IsDict(arbetsplats, <<"medlemmar_per_forvaltning", x>>)
                 /\ IsDict(arbetsplats, <<"medlemmar_per_forvaltning", x, "enheter">>)}
           |-> m[f]]

\* One workplace's contribution to one unit's total (manage_units.py 71-85):
\* a dedicated workplace gives medlemmar_per_enhet.get(enhet_id, 0); a shared
\* one gives, for every division entry of medlemmar_per_forvaltning that has
\* an "enheter" map, that map's .get(enhet_id, 0).
RECURSIVE SharedContribution(_, _)
SharedContribution(medlemmar_per_forvaltning, enhet_id) ==
    IF DOMAIN medlemmar_per_forvaltning = {} THEN 0
    ELSE LET forv_id == CHOOSE x \in DOMAIN medlemmar_per_forvaltning : TRUE
             forv_data == medlemmar_per_forvaltning[forv_id]
             rest == [x \in DOMAIN medlemmar_per_forvaltning \ {forv_id} |->
                          medlemmar_per_forvaltning[x]]
         IN (IF "enheter" \in DOMAIN forv_data
                THEN Get(forv_data.enheter, enhet_id, 0) ELSE 0)
            + SharedContribution(rest, enhet_id)

\* Contribution, were the shared workplaces skipped.
ContributionDedicatedOnly(arbetsplats, enhet_id) ==
    IF ~arbetsplats.alla_forvaltningar
       THEN Get(arbetsplats.medlemmar_per_enhet, enhet_id, 0)
       ELSE 0

\* Contribution, were a shared workplace read under one division's entry only.
ContributionOneEntry(arbetsplats, enhet_id) ==
    IF ~arbetsplats.alla_forvaltningar
       THEN Get(arbetsplats.medlemmar_per_enhet, enhet_id, 0)
       ELSE LET m == arbetsplats.medlemmar_per_forvaltning
            IN IF DOMAIN m = {} THEN 0
               ELSE LET forv_id == CHOOSE x \in DOMAIN m : \A y \in DOMAIN m : x <= y
                    IN Get(m[forv_id].enheter, enhet_id, 0)

Contribution(arbetsplats, enhet_id) ==
    IF ~arbetsplats.alla_forvaltningar
       THEN IF IsDict(arbetsplats, <<"medlemmar_per_enhet">>)
               THEN Get(arbetsplats.medlemmar_per_enhet, enhet_id, 0)
               ELSE 0
       ELSE IF IsDict(arbetsplats, <<"medlemmar_per_forvaltning">>)
               THEN SharedContribution(DictEntries(arbetsplats), enhet_id)
               ELSE 0

\* The values the unit loop adds to total_members for one workplace and one
\* unit (lines 76 and 85).
Addends(arbetsplats, enhet_id) ==
    IF ~arbetsplats.alla_forvaltningar
       THEN IF IsDict(arbetsplats, <<"medlemmar_per_enhet">>)
               THEN {Get(arbetsplats.medlemmar_per_enhet, enhet_id, 0)}
               ELSE {}
       ELSE IF IsDict(arbetsplats, <<"medlemmar_per_forvaltning">>)
               THEN LET m == DictEntries(arbetsplats)
                    IN {Get(m[f].enheter, enhet_id, 0) :
                           f \in {x \in DOMAIN m : "enheter" \in DOMAIN m[x]}}
               ELSE {}

\* UnitLoopRaises, were the isinstance tests left out: .get or .items of a
\* value that is no dict raises AttributeError.
UnitLoopRaisesUntested(d) ==
    \/ \E arbetsplats \in Range(d.arbetsplatser) : arbetsplats.non_dict # {}
    \/ \E enhet \in Range(d.enheter), arbetsplats \in Range(d.arbetsplatser) :
          NotANumber \in Addends(arbetsplats, enhet.id)

\* total_members += value raises TypeError: some value the unit loop adds is
\* no number.
UnitLoopRaises(d) ==
    \E enhet \in Range(d.enheter), arbetsplats \in Range(d.arbetsplatser) :
        NotANumber \in Addends(arbetsplats, enhet.id)

\* total_members of one unit: the loop over all workplaces.
RECURSIVE total_members(_, _)
total_members(arbetsplatser, enhet_id) ==
    IF arbetsplatser = <<>> THEN 0
    ELSE Contribution(Head(arbetsplatser), enhet_id)
         + total_members(Tail(arbetsplatser), enhet_id)

\* sum(c.get("beraknat_medlemsantal", 0) for c in children if c.parent == id)
RECURSIVE SumChildren(_, _, _)
SumChildren(children, parent_field, id) ==
    IF children = <<>> THEN 0
    ELSE (IF Head(children)[parent_field] = id
             THEN Head(children).beraknat_medlemsantal ELSE 0)
         + SumChildren(Tail(children), parent_field, id)

\* The three batches of UpdateOne({"_id": id}, {"$set": {count}}), as id -> count.
enhet_updates(enheter, arbetsplatser) ==
    [id \in Ids(enheter) |-> total_members(arbetsplatser, id)]

avdelning_updates(avdelningar, enheter) ==
    [id \in Ids(avdelningar) |-> SumChildren(enheter, "avdelning_id", id)]

forvaltning_updates(forvaltningar, avdelningar) ==
    [id \in Ids(forvaltningar) |-> SumChildren(avdelningar, "forvaltning_id", id)]

\* collection.bulk_write(updates): every document whose _id is named gets the
\* count; an update whose document is gone changes nothing.
bulk_write(coll, updates) ==
    [i \in DOMAIN coll |->
        IF coll[i].id \in DOMAIN updates
           THEN [coll[i] EXCEPT !.beraknat_medlemsantal = updates[coll[i].id]]
           ELSE coll[i]]

\* The Store after the unit pass, after the department pass (which re-reads
\* the units) and after the division pass (which re-reads the departments).
EnhetPass(d) ==
    [d EXCEPT !.enheter = bulk_write(d.enheter, enhet_updates(d.enheter, d.arbetsplatser))]

\* AvdelningPass, were the units not read again after their pass.
AvdelningPassNoReread(d0, d1) ==
    [d1 EXCEPT !.avdelningar =
        bulk_write(d1.avdelningar, avdelning_updates(d0.avdelningar, d0.enheter))]

AvdelningPass(d0, d1) ==
    [d1 EXCEPT !.avdelningar =
        bulk_write(d1.avdelningar, avdelning_updates(d0.avdelningar, d1.enheter))]

ForvaltningPass(d0, d2) ==
    [d2 EXCEPT !.forvaltningar =
        bulk_write(d2.forvaltningar, forvaltning_updates(d0.forvaltningar, d2.avdelningar))]

\* The flag, were it read with False for a session that has none.
NeedsRecalculationDefaultFalse(ss) == Get(ss, "needs_recalculation", FALSE)

\* needs_recalculation as st.session_state.get('needs_recalculation', True) reads it
NeedsRecalculation(ss) == Get(ss, "needs_recalculation", TRUE)

\* The Store operations of calculate_member_counts, in the order it issues
\* them: the four reads of lines 51-54, the unit batch (99), the re-read of
\* the units (102), the department batch (122), the re-read of the
\* departments (125), the division batch (145).
StoreOps == 1..9

\* A batch that fails has applied the updates of the first `applied`
\* documents (bulk_write is ordered; nothing is rolled back).
PartialWrite(coll, updates, applied) ==
    bulk_write(coll, [id \in {coll[i].id : i \in DOMAIN coll \cap 1..applied} |->
                         updates[id]])

\* What a call of calculate_member_counts leaves: the Store, the session
\* state, whether the three passes ran to the end, whether the call raised,
\* and the Store reads and batch writes it issued.
Aggregation(d, ss, ran, raised, reads, writes) ==
    [db |-> d, ss |-> ss, ran |-> ran, raised |-> raised, reads |-> reads,
     writes |-> writes]

\* The batches issued among those of the given collections: a batch is
\* issued only when its list of updates is not empty (lines 98, 121, 144).
Batches(d, colls) == Cardinality({c \in colls : d[c] # <<>>})

\* Lines 125-148.  d: the Store as read at lines 51-54; d2: the Store after
\* the department batch; done: the session state line 148 leaves; fail: the
\* Store operation that raises (0: none does).
DivisionStage(d, d2, ss, done, fail, applied) ==
    IF fail = 8
       THEN Aggregation(d2, ss, FALSE, TRUE, 6, Batches(d, {"enheter", "avdelningar"}))
    ELSE IF fail = 9 /\ d.forvaltningar # <<>>
       THEN Aggregation([d2 EXCEPT !.forvaltningar =
                            PartialWrite(@, forvaltning_updates(d.forvaltningar,
                                                                d2.avdelningar),
                                         applied)],
                        ss, FALSE, TRUE, 6,
                        Batches(d, {"enheter", "avdelningar", "forvaltningar"}))
    ELSE Aggregation(ForvaltningPass(d, d2), done, TRUE, FALSE, 6,
                     Batches(d, {"enheter", "avdelningar", "forvaltningar"}))

\* Lines 102-148.  d1: the Store after the unit batch.
DepartmentStage(d, d1, ss, done, fail, applied) ==
    IF fail = 6
       THEN Aggregation(d1, ss, FALSE, TRUE, 5, Batches(d, {"enheter"}))
    ELSE IF fail = 7 /\ d.avdelningar # <<>>
       THEN Aggregation([d1 EXCEPT !.avdelningar =
                            PartialWrite(@, avdelning_updates(d.avdelningar, d1.enheter),
                                         applied)],
                        ss, FALSE, TRUE, 5, Batches(d, {"enheter", "avdelningar"}))
    ELSE DivisionStage(d, AvdelningPass(d, d1), ss, done, fail, applied)

\* Lines 50-148, past the gate.
PassesOutcome(d, ss, done, fail, applied) ==
    IF fail \in 1..4 THEN Aggregation(d, ss, FALSE, TRUE, fail, 0)
    ELSE IF UnitLoopRaises(d) THEN Aggregation(d, ss, FALSE, TRUE, 4, 0)
    ELSE IF fail = 5 /\ d.enheter # <<>>
       THEN Aggregation([d EXCEPT !.enheter =
                            PartialWrite(@, enhet_updates(d.enheter, d.arbetsplatser),
                                         applied)],
                        ss, FALSE, TRUE, 4, Batches(d, {"enheter"}))
    ELSE DepartmentStage(d, EnhetPass(d), ss, done, fail, applied)

\* Lines 50-148, were line 148 left out: the flag stays as it was.
ThreePassesFlagKept(d, ss, fail, applied) == PassesOutcome(d, ss, ss, fail, applied)

\* Lines 50-148: the passes, then line 148 clears the flag.
ThreePasses(d, ss, fail, applied) ==
    PassesOutcome(d, ss, SetKey(ss, "needs_recalculation", FALSE), fail, applied)

\* calculate_member_counts, were the flag not consulted.
calculate_member_counts_ungated(d, ss, fail, applied) ==
    ThreePasses(d, ss, fail, applied)

\* calculate_member_counts, were the flag cleared before the passes.
calculate_member_counts_clearing_first(d, ss, fail, applied) ==
    IF ~NeedsRecalculation(ss)
       THEN Aggregation(d, ss, FALSE, FALSE, 0, 0)
       ELSE [ThreePasses(d, ss, fail, applied) EXCEPT
                !.ss = SetKey(ss, "needs_recalculation", FALSE)]

\* calculate_member_counts(db) in session state ss, with the Store operation
\* `fail` raising.
calculate_member_counts_with(d, ss, fail, applied) ==
    IF ~NeedsRecalculation(ss)
       THEN Aggregation(d, ss, FALSE, FALSE, 0, 0)
       ELSE ThreePasses(d, ss, fail, applied)

\* calculate_member_counts(db) on a Store that answers.
calculate_member_counts(d, ss) == calculate_member_counts_with(d, ss, 0, 0)

\* ------------------------------------------------------------ cache store
\* load_base_data(db): six collection scans.
load_base_data(d) ==
    [forvaltningar |-> d.forvaltningar, avdelningar |-> d.avdelningar,
     enheter |-> d.enheter, arbetsplatser |-> d.arbetsplatser,
     personer |-> d.personer, boards |-> d.boards]

BaseDataReads == Cardinality(Collections)

\* create_indexes raises KeyError on avd['forvaltning_id'],
\* enhet['avdelning_id'], ap['forvaltning_id'] (dedicated workplace),
\* person['forvaltning_id'] or board['forvaltning_id'] of a document that
\* does not carry the key.
\* IndexBuildRaises, were a parent that the snapshot does not hold a KeyError
\* as well.
IndexBuildRaisesOnDangling(data) ==
    \/ \E x \in Range(data.avdelningar) : x.forvaltning_id \notin Ids(data.forvaltningar)
    \/ \E x \in Range(data.enheter) : x.avdelning_id \notin Ids(data.avdelningar)
    \/ \E x \in Range(data.arbetsplatser) :
          ~x.alla_forvaltningar /\ x.forvaltning_id = Missing
    \/ \E x \in Range(data.personer) : x.forvaltning_id = Missing
    \/ \E x \in Range(data.boards) : x.forvaltning_id = Missing

IndexBuildRaises(data) ==
    \/ \E x \in Range(data.avdelningar) : x.forvaltning_id = Missing
    \/ \E x \in Range(data.enheter) : x.avdelning_id = Missing
    \/ \E x \in Range(data.arbetsplatser) :
          ~x.alla_forvaltningar /\ x.forvaltning_id = Missing
    \/ \E x \in Range(data.personer) : x.forvaltning_id = Missing
    \/ \E x \in Range(data.boards) : x.forvaltning_id = Missing

\* defaultdict(list) filled by "for x in q: index[x[field]].append(x)"
GroupBy(q, field) ==
    [k \in {q[i][field] : i \in DOMAIN q} |-> SelectSeq(q, LAMBDA x : x[field] = k)]

\* id_lookup[collection]: "for x in q: lookup[x['_id']] = x" (the last one wins)
IdLookup(q) ==
    [k \in Ids(q) |->
        q[CHOOSE i \in DOMAIN q : q[i].id = k /\ \A j \in DOMAIN q : q[j].id = k => j <= i]]

\* personer_by_arbetsplats: every person under each of its workplace names
PersonerByArbetsplats(personer) ==
    [n \in UNION {personer[i].arbetsplats : i \in DOMAIN personer} |->
        SelectSeq(personer, LAMBDA x : n \in x.arbetsplats)]

create_indexes(data) ==
    [avdelningar_by_forv |-> GroupBy(data.avdelningar, "forvaltning_id"),
     enheter_by_avd |-> GroupBy(data.enheter, "avdelning_id"),
     arbetsplatser_by_forv |->
        GroupBy(SelectSeq(data.arbetsplatser, LAMBDA x : ~x.alla_forvaltningar),
                "forvaltning_id"),
     personer_by_forv |-> GroupBy(data.personer, "forvaltning_id"),
     personer_by_arbetsplats |-> PersonerByArbetsplats(data.personer),
     boards_by_forv |-> GroupBy(data.boards, "forvaltning_id"),
     regionala_arbetsplatser |->
        SelectSeq(data.arbetsplatser, LAMBDA x : x.alla_forvaltningar),
     id_lookup |->
        [forvaltningar |-> IdLookup(data.forvaltningar),
         avdelningar |-> IdLookup(data.avdelningar),
         enheter |-> IdLookup(data.enheter),
         arbetsplatser |-> IdLookup(data.arbetsplatser),
         boards |-> IdLookup(data.boards)]]

\* The result of a cache operation: the session state it leaves, whether it
\* raised, how many Store reads it issued, and whether the indexes it leaves
\* were built from the snapshot it leaves (pair).
Outcome(ss, raised, reads, pair) ==
    [ss |-> ss, raised |-> raised, reads |-> reads, pair |-> pair]

\* get_cached_data(db, force_refresh).  read_ok = FALSE: a find() of
\* load_base_data raises (the Store is unavailable).  Line 121 assigns the
\* snapshot before line 122 builds the indexes; the return at line 124 reads
\* both keys.
\* get_cached_data, were the snapshot reloaded on every call.
get_cached_data_reloading(d, ss, pair, force_refresh, read_ok) ==
    IF ~read_ok THEN Outcome(ss, TRUE, 1, pair)
    ELSE LET data == load_base_data(d)
             ss1 == SetKey(ss, "cached_data", data)
         IN IF IndexBuildRaises(data)
               THEN Outcome(ss1, TRUE, BaseDataReads, FALSE)
               ELSE Outcome(SetKey(ss1, "cached_indexes", create_indexes(data)),
                            FALSE, BaseDataReads, TRUE)

get_cached_data(d, ss, pair, force_refresh, read_ok) ==
    IF force_refresh \/ "cached_data" \notin DOMAIN ss
       THEN IF ~read_ok
               THEN Outcome(ss, TRUE, 1, pair)
            ELSE LET data == load_base_data(d)
                     ss1 == SetKey(ss, "cached_data", data)
                 IN IF IndexBuildRaises(data)
                       THEN Outcome(ss1, TRUE, BaseDataReads, FALSE)
                       ELSE Outcome(SetKey(ss1, "cached_indexes", create_indexes(data)),
                                    FALSE, BaseDataReads, TRUE)
       ELSE Outcome(ss, "cached_indexes" \notin DOMAIN ss, 0, pair)

\* refresh_cache(db): delete both keys, then a forced load.
\* refresh_cache, were the snapshot kept and the load not forced.
refresh_cache_unforced(d, ss, pair, read_ok) ==
    get_cached_data(d, ss, pair, FALSE, read_ok)

refresh_cache(d, ss, pair, read_ok) ==
    get_cached_data(d, DelKeys(ss, {"cached_data", "cached_indexes"}), FALSE, TRUE, read_ok)

\* defaultdict index[k].append(x)
AppendAt(index, k, x) ==
    (k :> Append(Get(index, k, <<>>), x)) @@ index

RECURSIVE AppendAtAll(_, _, _)
AppendAtAll(index, ks, x) ==
    IF ks = {} THEN index
    ELSE LET k == CHOOSE y \in ks : TRUE
         IN AppendAtAll(AppendAt(index, k, x), ks \ {k}, x)

\* The person-create patch, were the workplace-name index left as it was.
PatchPersonIndexesByForvOnly(indexes, data) ==
    [indexes EXCEPT !.personer_by_forv = AppendAt(@, data.forvaltning_id, data)]

\* The person-create patch of the two person indexes (lines 160-165).
PatchPersonIndexes(indexes, data) ==
    [indexes EXCEPT
        !.personer_by_forv = AppendAt(@, data.forvaltning_id, data),
        !.personer_by_arbetsplats = AppendAtAll(@, data.arbetsplats, data)]

\* update_cache_after_change(db, collection_name, operation, data).
\* has_data is the truth value of data (None and {} are false).
update_cache_after_change(d, ss, pair, collection_name, operation, has_data, data, read_ok) ==
    IF operation \in {"delete", "update"} \/ collection_name \in {"forvaltningar", "avdelningar"}
       THEN refresh_cache(d, ss, pair, read_ok)
    ELSE IF operation = "create" /\ has_data
       THEN IF "cached_data" \notin DOMAIN ss
               THEN Outcome(ss, TRUE, 0, pair)       \* AttributeError at line 154
            ELSE IF collection_name \notin DOMAIN ss.cached_data
               THEN refresh_cache(d, ss, pair, read_ok)
            ELSE LET ss1 == SetKey(ss, "cached_data",
                                [ss.cached_data EXCEPT ![collection_name] = Append(@, data)])
                 IN IF collection_name # "personer"
                       THEN Outcome(ss1, FALSE, 0, pair)
                    ELSE IF "cached_indexes" \notin DOMAIN ss1
                       THEN Outcome(ss1, TRUE, 0, pair)   \* AttributeError at line 162
                    ELSE Outcome(SetKey(ss1, "cached_indexes",
                                     PatchPersonIndexes(ss1.cached_indexes, data)),
                                 FALSE, 0, pair)
    ELSE Outcome(ss, FALSE, 0, pair)

\* -------------------------------------------------------------- documents
\* The documents the forms insert (insert_one sites).
Forvaltning(id) == [id |-> id, beraknat_medlemsantal |-> 0]

Avdelning(id, forv_id) ==
    [id |-> id, forvaltning_id |-> forv_id, beraknat_medlemsantal |-> 0]

Enhet(id, avd) ==
    [id |-> id, avdelning_id |-> avd.id, forvaltning_id |-> avd.forvaltning_id,
     beraknat_medlemsantal |-> 0]

\* A workplace form document carries no membership map yet: .get(k, {}) reads {}.
Arbetsplats(id, namn, alla_forvaltningar, forv_id) ==
    [id |-> id, namn |-> namn, alla_forvaltningar |-> alla_forvaltningar,
     forvaltning_id |-> forv_id,
     medlemmar_per_enhet |-> <<>>, medlemmar_per_forvaltning |-> <<>>,
     non_dict |-> {}]

Person(id, forv_id, enhet_id, arbetsplats) ==
    [id |-> id, forvaltning_id |-> forv_id, enhet_id |-> enhet_id,
     arbetsplats |-> arbetsplats]

Board(id, forv_id) == [id |-> id, forvaltning_id |-> forv_id]

EmptyStore ==
    [forvaltningar |-> <<>>, avdelningar |-> <<>>, enheter |-> <<>>,
     arbetsplatser |-> <<>>, personer |-> <<>>, boards |-> <<>>]

NoIds == [c \in Collections |-> 0]

MaxDocs ==
    [forvaltningar |-> MaxForv, avdelningar |-> MaxAvd, enheter |-> MaxEnh,
     arbetsplatser |-> MaxAp, personer |-> MaxPers, boards |-> MaxBoards]

\* insert_one: the Store gives the document a fresh _id.
CanInsert(c) == ids[c] < cap[c]
NewId(c) == ids[c] + 1
InsertOne(d, c, doc) == [d EXCEPT ![c] = Append(@, doc)]

Names == 1..MaxNames

\* What the last operation did: its name, its session, whether it raised, the
\* Store reads the cache functions issued in it, whether the three passes ran
\* in its last script run (for a form, the rerun that follows its handler),
\* the collection and operation given to update_cache_after_change, whether a
\* document was given with them (data), the batch writes issued (writes) and
\* the Store operation of calculate_member_counts that raised (fail; 0: none).
Did(op, s, raised, reads, ran, coll, operation) ==
    [op |-> op, s |-> s, raised |-> raised, reads |-> reads, ran |-> ran,
     coll |-> coll, operation |-> operation, data |-> FALSE, writes |-> 0,
     fail |-> 0]

Init ==
    /\ db = EmptyStore
    /\ ids = NoIds
    /\ cap = MaxDocs
    /\ st = [s \in Sessions |-> <<>>]
    /\ paired = [s \in Sessions |-> FALSE]
    /\ last = Did("init", 0, FALSE, 0, FALSE, "", "")
    /\ calls = NoCalls

\* ------------------------------------------------ cache functions, called
\* get_cached_data, were the snapshot kept in one place for the whole
\* process (a module-level cache) and not in the caller's session_state.
GetCachedDataProcessWide(s, force_refresh, read_ok) ==
    LET o == get_cached_data(db, st[s], paired[s], force_refresh, read_ok)
    IN /\ st' = [t \in Sessions |-> o.ss]
       /\ paired' = [t \in Sessions |-> o.pair]
       /\ last' = Did(IF force_refresh THEN "load_forced" ELSE "load", s, o.raised,
                      o.reads, FALSE, "", "")
       /\ UNCHANGED <<db, ids, cap, calls>>

\* A call of get_cached_data(db, force_refresh) in session s.
GetCachedData(s, force_refresh, read_ok) ==
    LET o == get_cached_data(db, st[s], paired[s], force_refresh, read_ok)
    IN /\ st' = [st EXCEPT ![s] = o.ss]
       /\ paired' = [paired EXCEPT ![s] = o.pair]
       /\ last' = Did(IF force_refresh THEN "load_forced" ELSE "load", s, o.raised,
                      o.reads, FALSE, "", "")
       /\ UNCHANGED <<db, ids, cap, calls>>

\* A call of refresh_cache(db) in session s.
RefreshCache(s, read_ok) ==
    LET o == refresh_cache(db, st[s], paired[s], read_ok)
    IN /\ st' = [st EXCEPT ![s] = o.ss]
       /\ paired' = [paired EXCEPT ![s] = o.pair]
       /\ last' = Did("refresh_cache", s, o.raised, o.reads, FALSE, "", "")
       /\ UNCHANGED <<db, ids, cap, calls>>

\* The documents a create form of collection c can insert into Store d.
NewDocs(d, c) ==
    CASE c = "forvaltningar" -> {Forvaltning(NewId(c))}
      [] c = "avdelningar" -> {Avdelning(NewId(c), f) : f \in Ids(d.forvaltningar)}
      [] c = "enheter" ->
            {Enhet(NewId(c), a) : a \in {x \in Range(d.avdelningar) : x.forvaltning_id # Missing}}
      [] c = "arbetsplatser" ->
            {Arbetsplats(NewId(c), n, TRUE, NoneId) : n \in Names}
            \cup {Arbetsplats(NewId(c), n, FALSE, f) :
                     n \in Names, f \in Ids(d.forvaltningar)}
      [] c = "personer" ->
            {Person(NewId(c), e.forvaltning_id, e.id, {n}) :
                 e \in Range(d.enheter), n \in Names}
      [] c = "boards" -> {Board(NewId(c), f) : f \in Ids(d.forvaltningar)}

\* A form inserts a document and reports the create to the cache:
\* result = insert_one(doc); update_cache_after_change(db, c, 'create', data).
\* first_time_setup.py reports without data (has_data = FALSE).
CreateAndNotify(s, c, has_data, read_ok) ==
    /\ CanInsert(c)
    /\ \E doc \in NewDocs(db, c) :
          LET d1 == InsertOne(db, c, doc)
              o == update_cache_after_change(d1, st[s], paired[s], c, "create",
                                             has_data, doc, read_ok)
          IN /\ db' = d1
             /\ ids' = [ids EXCEPT ![c] = @ + 1]
             /\ UNCHANGED <<cap, calls>>
             /\ st' = [st EXCEPT ![s] = o.ss]
             /\ paired' = [paired EXCEPT ![s] = o.pair]
             /\ last' = [Did("notify", s, o.raised, o.reads, FALSE, c, "create")
                            EXCEPT !.data = has_data]

\* A form deletes a document and reports it:
\* delete_one({"_id": id}); update_cache_after_change(db, c, 'delete').
DeleteAndNotify(s, c, read_ok) ==
    \E id \in Ids(db[c]) :
        LET d1 == [db EXCEPT ![c] = DeleteOne(@, id)]
            o == update_cache_after_change(d1, st[s], paired[s], c, "delete",
                                           FALSE, <<>>, read_ok)
        IN /\ db' = d1
           /\ st' = [st EXCEPT ![s] = o.ss]
           /\ paired' = [paired EXCEPT ![s] = o.pair]
           /\ last' = Did("notify", s, o.raised, o.reads, FALSE, c, "delete")
           /\ UNCHANGED <<ids, cap, calls>>

\* collection.update_one({"_id": id}, {"$set": {field: value}})
UpdateOne(coll, id, field, value) ==
    [i \in DOMAIN coll |->
        IF coll[i].id = id THEN [coll[i] EXCEPT ![field] = value] ELSE coll[i]]

\* The {"$set": ...} changes an edit form of collection c can make in Store d:
\* a workplace's name, a department's division.
Edits(d, c) ==
    CASE c = "arbetsplatser" ->
            {<<x.id, "namn", n>> : x \in Range(d.arbetsplatser), n \in Names}
      [] c = "avdelningar" ->
            {<<x.id, "forvaltning_id", f>> :
                 x \in Range(d.avdelningar), f \in Ids(d.forvaltningar)}
      [] OTHER -> {}

\* A form updates a document and reports it when the Store changed it:
\* result = update_one(...); if result.modified_count > 0:
\* update_cache_after_change(db, c, 'update').
UpdateAndNotify(s, c, read_ok) ==
    \E e \in Edits(db, c) :
        LET d1 == [db EXCEPT ![c] = UpdateOne(@, e[1], e[2], e[3])]
            o == update_cache_after_change(d1, st[s], paired[s], c, "update",
                                           FALSE, <<>>, read_ok)
        IN /\ d1 # db
           /\ db' = d1
           /\ st' = [st EXCEPT ![s] = o.ss]
           /\ paired' = [paired EXCEPT ![s] = o.pair]
           /\ last' = Did("notify", s, o.raised, o.reads, FALSE, c, "update")
           /\ UNCHANGED <<ids, cap, calls>>

\* Another writer on the shared Store leaves a partially migrated department
\* document, one without the forvaltning_id key, and later completes it.
LegacyInsert ==
    /\ CanInsert("avdelningar")
    /\ db' = InsertOne(db, "avdelningar", Avdelning(NewId("avdelningar"), Missing))
    /\ ids' = [ids EXCEPT !["avdelningar"] = @ + 1]
    /\ last' = Did("external", 0, FALSE, 0, FALSE, "avdelningar", "create")
    /\ UNCHANGED <<cap, st, paired, calls>>

LegacyRepair ==
    \E x \in Range(db.avdelningar), f \in Ids(db.forvaltningar) :
        /\ x.forvaltning_id = Missing
        /\ db' = [db EXCEPT !.avdelningar = UpdateOne(@, x.id, "forvaltning_id", f)]
        /\ last' = Did("external", 0, FALSE, 0, FALSE, "avdelningar", "update")
        /\ UNCHANGED <<ids, cap, st, paired, calls>>

\* ------------------------------------------------- the cache functions alone
\* Session 1 calls the cache functions in any order, with any arguments, on a
\* Store that forms and another writer change.
ApiLoad == \E force_refresh \in BOOLEAN, read_ok \in BOOLEAN :
               GetCachedData(1, force_refresh, read_ok)
ApiRefresh == \E read_ok \in BOOLEAN : RefreshCache(1, read_ok)
ApiCreate == \E c \in Collections, has_data \in BOOLEAN, read_ok \in BOOLEAN :
                 CreateAndNotify(1, c, has_data, read_ok)
ApiUpdate == \E c \in Collections, read_ok \in BOOLEAN : UpdateAndNotify(1, c, read_ok)
ApiDelete == \E c \in Collections, read_ok \in BOOLEAN : DeleteAndNotify(1, c, read_ok)

NextCache ==
    \/ ApiLoad
    \/ ApiRefresh
    \/ ApiCreate
    \/ ApiUpdate
    \/ ApiDelete
    \/ LegacyInsert
    \/ LegacyRepair

InitCache ==
    /\ db = EmptyStore
    /\ ids = NoIds
    /\ cap = [c \in Collections |-> CacheDocs]
    /\ st = [s \in Sessions |-> <<>>]
    /\ paired = [s \in Sessions |-> FALSE]
    /\ last = Did("init", 0, FALSE, 0, FALSE, "", "")
    /\ calls = NoCalls

SpecCache == InitCache /\ [][NextCache]_vars

\* ------------------------------------------------------- the render cycle
\* A script run in progress: the Store, the session state, the pairing of the
\* indexes, whether the run raised, the Store reads of its cache functions and
\* whether the three passes ran.
Run(d, ss, pair) ==
    [db |-> d, ss |-> ss, pair |-> pair, raised |-> FALSE, reads |-> 0, ran |-> FALSE]

\* if k not in st.session_state: st.session_state[k] = v
SetDefault(ss, k, v) == IF k \in DOMAIN ss THEN ss ELSE SetKey(ss, k, v)

\* manage_units.show, lines 174-189: recompute when the flag is set (or
\* absent), drop the screen's three lists, clear the flag, then load the lists
\* that are absent.  An exception of the recomputation ends the run at line
\* 176.
\* c: what the call at line 176 leaves (when the flag is False, what the
\* run began with).
units_lists(r, c) ==
    LET ss1 == IF NeedsRecalculation(r.ss)
                  THEN SetKey(DelKeys(c.ss, {"forvaltningar", "avdelningar", "enheter"}),
                              "needs_recalculation", FALSE)
                  ELSE r.ss
        ss2 == SetDefault(SetDefault(SetDefault(ss1,
                    "forvaltningar", c.db.forvaltningar),
                    "avdelningar", c.db.avdelningar),
                    "enheter", c.db.enheter)
    IN IF c.raised
          THEN [r EXCEPT !.db = c.db, !.raised = TRUE]
          ELSE [r EXCEPT !.db = c.db, !.ss = ss2, !.ran = c.ran]

units_head(r) == units_lists(r, calculate_member_counts(r.db, r.ss))

\* A call of a cache function inside a run.
WithOutcome(r, o) ==
    [r EXCEPT !.ss = o.ss, !.pair = o.pair, !.raised = o.raised,
              !.reads = r.reads + o.reads]

\* manage_workplaces.show, lines 218-222: cached, indexes = get_cached_data(db);
\* st.session_state.forvaltningar = cached['forvaltningar'].  (The key
\* arbetsplatser, assigned next to it, is read only later in the same run and
\* is left out.)  A run that has raised does not reach the screen.
workplaces_head(r, read_ok) ==
    LET r1 == WithOutcome(r, get_cached_data(r.db, r.ss, r.pair, FALSE, read_ok))
    IN IF r.raised THEN r
       ELSE IF r1.raised THEN r1
       ELSE [r1 EXCEPT !.ss = SetKey(r1.ss, "forvaltningar", r1.ss.cached_data.forvaltningar)]

\* One script run with no widget fired (app.py 200-205): the units screen,
\* then the workplaces screen.  The workplaces screen then raises KeyError at
\* line 236 (it reads indexes['globala_arbetsplatser'], create_indexes builds
\* 'regionala_arbetsplatser'); no state this model holds is written after
\* that line in a run with no widget fired.
render(r, read_ok) == workplaces_head(units_head(r), read_ok)

\* The run ends: its Store and session state become the state.
Commit(s, r, op, coll, operation) ==
    /\ db' = r.db
    /\ st' = [st EXCEPT ![s] = r.ss]
    /\ paired' = [paired EXCEPT ![s] = r.pair]
    /\ last' = Did(op, s, r.raised, r.reads, r.ran, coll, operation)
    /\ UNCHANGED <<cap, calls>>

\* The session has rendered once: a form is submitted from a rendered page.
Rendered(s) == "forvaltningar" \in DOMAIN st[s]

\* A page load, or any interaction that writes nothing.
Render(s) ==
    /\ Commit(s, render(Run(db, st[s], paired[s]), TRUE), "render", "", "")
    /\ UNCHANGED ids

\* A form of the units screen is submitted: the run reaches the form through
\* units_head, the handler writes to the Store, and st.rerun() starts the
\* next run.
UnitsRun(s) == units_head(Run(db, st[s], paired[s]))

\* d2: the Store as the handler leaves it.
UnitsForm(s, d2, coll, operation) ==
    Commit(s, render([UnitsRun(s) EXCEPT !.db = d2], TRUE), "units_form", coll, operation)

\* manage_units.py 216-224: add a division.
AddForvaltning(s) ==
    /\ Rendered(s)
    /\ CanInsert("forvaltningar")
    /\ UnitsForm(s, InsertOne(UnitsRun(s).db, "forvaltningar",
                              Forvaltning(NewId("forvaltningar"))),
                 "forvaltningar", "create")
    /\ ids' = [ids EXCEPT !["forvaltningar"] = @ + 1]

\* manage_units.py 265-273: delete a division shown from the screen's list,
\* unless the Store holds a department of it.
DeleteForvaltning(s) ==
    /\ Rendered(s)
    /\ \E forv \in Range(UnitsRun(s).ss.forvaltningar) :
          UnitsForm(s,
                IF \E a \in Range(UnitsRun(s).db.avdelningar) : a.forvaltning_id = forv.id
                   THEN UnitsRun(s).db
                   ELSE [UnitsRun(s).db EXCEPT !.forvaltningar = DeleteOne(@, forv.id)],
                "forvaltningar", "delete")
    /\ UNCHANGED ids

\* manage_units.py 293-306: add a department under a division of the list.
AddAvdelning(s) ==
    /\ Rendered(s)
    /\ CanInsert("avdelningar")
    /\ \E forv \in Range(UnitsRun(s).ss.forvaltningar) :
          UnitsForm(s, InsertOne(UnitsRun(s).db, "avdelningar",
                                 Avdelning(NewId("avdelningar"), forv.id)),
                    "avdelningar", "create")
    /\ ids' = [ids EXCEPT !["avdelningar"] = @ + 1]

\* The departments the screen lists: those of its list whose division is in
\* its list (lines 314-319).
ListedAvdelningar(ss) ==
    {a \in Range(ss.avdelningar) :
        \E f \in Range(ss.forvaltningar) : a.forvaltning_id = f.id}

\* The units the screen lists: those whose department is listed (419-429).
ListedEnheter(ss) ==
    {e \in Range(ss.enheter) :
        \E a \in ListedAvdelningar(ss) : e.avdelning_id = a.id}

\* manage_units.py 339-364: save a department, under the division chosen
\* from the list.
EditAvdelning(s) ==
    /\ Rendered(s)
    /\ LET ss == UnitsRun(s).ss
       IN \E avd \in ListedAvdelningar(ss), ny_forv \in Range(ss.forvaltningar) :
             UnitsForm(s,
                   [UnitsRun(s).db EXCEPT !.avdelningar =
                       UpdateOne(@, avd.id, "forvaltning_id", ny_forv.id)],
                   "avdelningar", "update")
    /\ UNCHANGED ids

\* manage_units.py 367-377: delete a department unless the Store holds a unit
\* of it.
DeleteAvdelning(s) ==
    /\ Rendered(s)
    /\ \E avd \in ListedAvdelningar(UnitsRun(s).ss) :
          UnitsForm(s,
                IF \E e \in Range(UnitsRun(s).db.enheter) : e.avdelning_id = avd.id
                   THEN UnitsRun(s).db
                   ELSE [UnitsRun(s).db EXCEPT !.avdelningar = DeleteOne(@, avd.id)],
                "avdelningar", "delete")
    /\ UNCHANGED ids

\* manage_units.py 397-411: add a unit under a department of the list; the
\* unit takes the division the list's copy of the department names.
AddEnhet(s) ==
    /\ Rendered(s)
    /\ CanInsert("enheter")
    /\ \E avd \in Range(UnitsRun(s).ss.avdelningar) :
          UnitsForm(s, InsertOne(UnitsRun(s).db, "enheter", Enhet(NewId("enheter"), avd)),
                    "enheter", "create")
    /\ ids' = [ids EXCEPT !["enheter"] = @ + 1]

\* manage_units.py 441-485: save a unit under a department chosen from the
\* Store's departments (read at line 441).
EditEnhet(s) ==
    /\ Rendered(s)
    /\ \E enhet \in ListedEnheter(UnitsRun(s).ss),
          vald_avd \in Range(UnitsRun(s).db.avdelningar) :
          UnitsForm(s,
                [UnitsRun(s).db EXCEPT !.enheter =
                    UpdateOne(UpdateOne(@, enhet.id, "avdelning_id", vald_avd.id),
                              enhet.id, "forvaltning_id", vald_avd.forvaltning_id)],
                "enheter", "update")
    /\ UNCHANGED ids

\* DeleteEnhet, were the persons looked up in the session's snapshot and not
\* in the Store.
DeleteEnhetBySnapshot(s) ==
    /\ Rendered(s)
    /\ \E enhet \in ListedEnheter(UnitsRun(s).ss) :
          UnitsForm(s,
                IF \E p \in Range(Get(UnitsRun(s).ss, "cached_data", EmptyStore).personer) :
                      p.enhet_id = enhet.id
                   THEN UnitsRun(s).db
                   ELSE [UnitsRun(s).db EXCEPT !.enheter = DeleteOne(@, enhet.id)],
                "enheter", "delete")
    /\ UNCHANGED ids

\* manage_units.py 488-497: delete a unit unless the Store holds a person of it.
DeleteEnhet(s) ==
    /\ Rendered(s)
    /\ \E enhet \in ListedEnheter(UnitsRun(s).ss) :
          UnitsForm(s,
                IF \E p \in Range(UnitsRun(s).db.personer) : p.enhet_id = enhet.id
                   THEN UnitsRun(s).db
                   ELSE [UnitsRun(s).db EXCEPT !.enheter = DeleteOne(@, enhet.id)],
                "enheter", "delete")
    /\ UNCHANGED ids

\* ------------------------------------------------------ workplace forms
\* A form of the workplaces screen is submitted: the run reaches the form
\* through the units screen and get_cached_data(db) (line 218); r2 is
\* the run after the handler, and st.rerun() follows unless it raised.
\* (Read with globala_arbetsplatser bound to the shared-workplace index that
\* create_indexes builds; see render.)
WorkplacesRun(s) == render(Run(db, st[s], paired[s]), TRUE)

\* r2: the run as the handler leaves it.
WorkplacesForm(s, r2, coll, operation) ==
    /\ ~WorkplacesRun(s).raised
    /\ Commit(s, IF r2.raised THEN [r2 EXCEPT !.ran = FALSE] ELSE render(r2, TRUE),
              "workplaces_form", coll, operation)

\* insert_one(arbetsplats); update_cache_after_change(db, 'arbetsplatser',
\* 'create', arbetsplats): lines 307-310 and 336-339.
InsertWorkplace(r, doc) ==
    LET d1 == InsertOne(r.db, "arbetsplatser", doc)
    IN WithOutcome([r EXCEPT !.db = d1],
                   update_cache_after_change(d1, r.ss, r.pair, "arbetsplatser", "create",
                                             TRUE, doc, TRUE))

\* manage_workplaces.py 284-342: add a shared workplace (forv_id = NoneId) or
\* one of a division, unless the indexes hold one of that name.
AddWorkplace(s) ==
    /\ Rendered(s)
    /\ CanInsert("arbetsplatser")
    /\ LET r0 == WorkplacesRun(s)
       IN /\ ~r0.raised
          /\ \E namn \in Names,
                forv_id \in {NoneId} \cup Ids(r0.ss.cached_data.forvaltningar) :
                LET indexes == r0.ss.cached_indexes
                    globala == Range(indexes.regionala_arbetsplatser)
                    egna == Range(Get(indexes.arbetsplatser_by_forv, forv_id, <<>>))
                    existing ==
                        IF forv_id = NoneId
                           THEN \E ap \in globala : ap.namn = namn
                           ELSE \E ap \in egna \cup globala : ap.namn = namn
                    doc == Arbetsplats(NewId("arbetsplatser"), namn, forv_id = NoneId, forv_id)
                IN /\ ~existing
                   /\ WorkplacesForm(s, InsertWorkplace(r0, doc),
                                     "arbetsplatser", "create")
    /\ ids' = [ids EXCEPT !["arbetsplatser"] = @ + 1]

\* The workplaces the first tab lists: the shared ones of the index, and the
\* indexed ones of every division of the snapshot (lines 352-355, 442-447).
ListedWorkplaces(ss) ==
    Range(ss.cached_indexes.regionala_arbetsplatser)
    \cup UNION {Range(Get(ss.cached_indexes.arbetsplatser_by_forv, f, <<>>)) :
                   f \in Ids(ss.cached_data.forvaltningar)}

\* manage_workplaces.py 404-426 and 497-520: save a workplace; the cache is
\* told only when the Store modified the document (modified_count > 0).
\* other_changed: an address field or a coordinate differs.
SaveWorkplace(r, ap, nytt_namn, other_changed) ==
    LET d1 == [r.db EXCEPT !.arbetsplatser = UpdateOne(@, ap.id, "namn", nytt_namn)]
        modified == ap.id \in Ids(r.db.arbetsplatser) /\ (d1 # r.db \/ other_changed)
    IN IF modified
          THEN WithOutcome([r EXCEPT !.db = d1],
                           update_cache_after_change(d1, r.ss, r.pair, "arbetsplatser",
                                                     "update", FALSE, <<>>, TRUE))
          ELSE r

EditWorkplace(s) ==
    /\ Rendered(s)
    /\ LET r0 == WorkplacesRun(s)
       IN /\ ~r0.raised
          /\ \E ap \in ListedWorkplaces(r0.ss), nytt_namn \in Names, other_changed \in BOOLEAN :
                WorkplacesForm(s, SaveWorkplace(r0, ap, nytt_namn, other_changed),
                               "arbetsplatser", "update")
    /\ UNCHANGED ids

\* manage_workplaces.py 429-438 and 523-534: delete a workplace unless the
\* index holds a person under its name.
RemoveWorkplace(r, ap) ==
    IF Get(r.ss.cached_indexes.personer_by_arbetsplats, ap.namn, <<>>) # <<>>
       THEN r
       ELSE LET d1 == [r.db EXCEPT !.arbetsplatser = DeleteOne(@, ap.id)]
            IN WithOutcome([r EXCEPT !.db = d1],
                           update_cache_after_change(d1, r.ss, r.pair, "arbetsplatser",
                                                     "delete", FALSE, <<>>, TRUE))

DeleteWorkplace(s) ==
    /\ Rendered(s)
    /\ LET r0 == WorkplacesRun(s)
       IN /\ ~r0.raised
          /\ \E ap \in ListedWorkplaces(r0.ss) :
                WorkplacesForm(s, RemoveWorkplace(r0, ap),
                               "arbetsplatser", "delete")
    /\ UNCHANGED ids

\* The units a membership form shows for a division: those of the
\* departments the Store holds for it (db.avdelningar.find, db.enheter.find).
FormUnits(d, forv_id) ==
    {e.id : e \in {x \in Range(d.enheter) :
                      \E a \in Range(d.avdelningar) :
                          a.forvaltning_id = forv_id /\ x.avdelning_id = a.id}}

\* "if medlemsantal > 0: nya_medlemmar[enhet_id] = medlemsantal"
Positive(fields) == [u \in {x \in DOMAIN fields : fields[x] > 0} |-> fields[u]]

Restrict(f, S) == [x \in S |-> f[x]]

MemberCounts == 0..MaxMembers

\* The second tab groups the snapshot's workplaces by name; a name with a
\* shared workplace shows only its first shared one (lines 575-583).
HasShared(arbetsplatser, namn) ==
    \E ap \in Range(arbetsplatser) : ap.namn = namn /\ ap.alla_forvaltningar

FirstShared(arbetsplatser, namn) ==
    arbetsplatser[CHOOSE i \in DOMAIN arbetsplatser :
        /\ arbetsplatser[i].namn = namn /\ arbetsplatser[i].alla_forvaltningar
        /\ \A j \in DOMAIN arbetsplatser :
              (arbetsplatser[j].namn = namn /\ arbetsplatser[j].alla_forvaltningar) => i <= j]

\* manage_workplaces.py 679-733: the member counts of a division's workplace.
\* The form is filled from the snapshot's copy and writes when the entered
\* map differs from that copy; nothing tells the cache or sets the flag.
UpdateMembers(r, instance, fields) ==
    LET nya_medlemmar == Positive(fields)
    IN IF nya_medlemmar # instance.medlemmar_per_enhet
          THEN [r EXCEPT !.db.arbetsplatser =
                   UpdateOne(@, instance.id, "medlemmar_per_enhet", nya_medlemmar)]
          ELSE r

UpdateMembersDedicated(s) ==
    /\ Rendered(s)
    /\ LET r0 == WorkplacesRun(s)
           arbetsplatser == r0.ss.cached_data.arbetsplatser
       IN /\ ~r0.raised
          /\ \E instance \in Range(arbetsplatser) :
                /\ ~HasShared(arbetsplatser, instance.namn)
                /\ \E fields \in [FormUnits(r0.db, instance.forvaltning_id) -> MemberCounts] :
                      WorkplacesForm(s, UpdateMembers(r0, instance, fields),
                                     "arbetsplatser", "members")
    /\ UNCHANGED ids

\* manage_workplaces.py 581-674: the member counts of a shared workplace, per
\* division of the Store and per unit of it.
UpdateMembersGlobal(r, global_instance, fields) ==
    LET medlemmar_per_forv == global_instance.medlemmar_per_forvaltning
        forvs == Ids(r.db.forvaltningar)
        denna(f) == Positive(Restrict(fields, FormUnits(r.db, f)))
        nya_medlemmar ==
            [f \in {x \in forvs : DOMAIN denna(x) # {}} |-> [enheter |-> denna(f)]]
        changes == \E f \in forvs :
                       Get(medlemmar_per_forv, f, <<>>) # Get(nya_medlemmar, f, <<>>)
    IN IF changes
          THEN [r EXCEPT !.db.arbetsplatser =
                   UpdateOne(@, global_instance.id, "medlemmar_per_forvaltning",
                             nya_medlemmar)]
          ELSE r

UpdateMembersShared(s) ==
    /\ Rendered(s)
    /\ LET r0 == WorkplacesRun(s)
           arbetsplatser == r0.ss.cached_data.arbetsplatser
           units == UNION {FormUnits(r0.db, f) : f \in Ids(r0.db.forvaltningar)}
       IN /\ ~r0.raised
          /\ \E namn \in {ap.namn : ap \in Range(arbetsplatser)} :
                /\ HasShared(arbetsplatser, namn)
                /\ \E fields \in [units -> MemberCounts] :
                      WorkplacesForm(s, UpdateMembersGlobal(r0, FirstShared(arbetsplatser, namn),
                                                            fields),
                                     "arbetsplatser", "members")
    /\ UNCHANGED ids

\* GlobalRefresh, were the flag left as it is (line 138 left out).
GlobalRefreshFlagKept(s) ==
    /\ Rendered(s)
    /\ LET ss1 == DelKeys(st[s], {"cached_data", "cached_indexes"})
       IN Commit(s, render(Run(db, ss1, FALSE), TRUE), "global_refresh", "", "")
    /\ UNCHANGED ids

\* app.py 132-139: the sidebar's refresh button drops the snapshot and the
\* indexes, sets the flag and reruns.
GlobalRefresh(s) ==
    /\ Rendered(s)
    /\ LET ss1 == SetKey(DelKeys(st[s], {"cached_data", "cached_indexes"}),
                         "needs_recalculation", TRUE)
       IN Commit(s, render(Run(db, ss1, FALSE), TRUE), "global_refresh", "", "")
    /\ UNCHANGED ids

\* manage_workplaces.py 225-227: the screen's own refresh button,
\* get_cached_data(db, force_refresh=True), then a rerun.
ScreenRefresh(s) ==
    /\ Rendered(s)
    /\ LET r0 == WorkplacesRun(s)
           r1 == WithOutcome(r0, get_cached_data(r0.db, r0.ss, r0.pair, TRUE, TRUE))
       IN /\ ~r0.raised
          /\ Commit(s, IF r1.raised THEN r1 ELSE render(r1, TRUE),
                    "screen_refresh", "", "")
    /\ UNCHANGED ids

\* --------------------------------------------------- one session's forms
Next ==
    \/ Render(1)
    \/ AddForvaltning(1)
    \/ DeleteForvaltning(1)
    \/ AddAvdelning(1)
    \/ EditAvdelning(1)
    \/ DeleteAvdelning(1)
    \/ AddEnhet(1)
    \/ EditEnhet(1)
    \/ DeleteEnhet(1)
    \/ AddWorkplace(1)
    \/ EditWorkplace(1)
    \/ DeleteWorkplace(1)
    \/ UpdateMembersDedicated(1)
    \/ UpdateMembersShared(1)
    \/ GlobalRefresh(1)
    \/ ScreenRefresh(1)

Spec == Init /\ [][Next]_vars

\* ------------------------------------------- aggregation over a hierarchy
\* A Store the forms have filled: AggChains divisions and as many
\* departments, department i under division pa[i] (the first under the
\* first), AggUnits units, unit i under department pe[i], a workplace of the
\* first division and a shared workplace, no member counts entered yet.
ChainStore(pa, pe) ==
    [forvaltningar |-> [i \in 1..AggChains |-> Forvaltning(i)],
     avdelningar |-> [i \in 1..AggChains |-> Avdelning(i, pa[i])],
     enheter |-> [i \in 1..AggUnits |-> Enhet(i, Avdelning(pe[i], pa[pe[i]]))],
     arbetsplatser |-> <<Arbetsplats(1, 1, FALSE, 1), Arbetsplats(2, 2, TRUE, NoneId)>>,
     personer |-> <<>>, boards |-> <<>>]

InitAgg ==
    /\ \E pa \in [1..AggChains -> 1..AggChains], pe \in [1..AggUnits -> 1..AggChains] :
          pa[1] = 1 /\ db = ChainStore(pa, pe)
    /\ ids = [c \in Collections |-> Len(db[c])]
    /\ cap = ids
    /\ st = [s \in Sessions |-> <<>>]
    /\ paired = [s \in Sessions |-> FALSE]
    /\ last = Did("init", 0, FALSE, 0, FALSE, "", "")
    /\ calls = NoCalls

NextAgg ==
    \/ Render(1)
    \/ GlobalRefresh(1)
    \/ UpdateMembersDedicated(1)
    \/ UpdateMembersShared(1)

SpecAgg == InitAgg /\ [][NextAgg]_vars

\* ===================================================== aggregation claims
\* The sum of a function's values, for stating the sums below.
RECURSIVE Total(_)
Total(f) ==
    IF DOMAIN f = {} THEN 0
    ELSE LET x == CHOOSE y \in DOMAIN f : TRUE
         IN f[x] + Total([y \in DOMAIN f \ {x} |-> f[y]])

DocOf(coll, id) == CHOOSE x \in Range(coll) : x.id = id

\* The last run executed the three passes and wrote nothing to the Store
\* after them.
AfterAggregation == last.op \in {"render", "global_refresh"} /\ last.ran

UnitsOf(avd_id) == {e.id : e \in {x \in Range(db.enheter) : x.avdelning_id = avd_id}}
DepartmentsOf(forv_id) ==
    {a.id : a \in {x \in Range(db.avdelningar) : x.forvaltning_id = forv_id}}

\* C1: when calculate_member_counts has completed, every department's count is
\* the sum of the persisted counts of the units under it, and every division's
\* count is the sum of the persisted counts of the departments under it.
C1_HierarchySums ==
    AfterAggregation =>
        /\ \A a \in Range(db.avdelningar) :
              a.beraknat_medlemsantal =
                  Total([u \in UnitsOf(a.id) |-> DocOf(db.enheter, u).beraknat_medlemsantal])
        /\ \A f \in Range(db.forvaltningar) :
              f.beraknat_medlemsantal =
                  Total([a \in DepartmentsOf(f.id) |->
                            DocOf(db.avdelningar, a).beraknat_medlemsantal])

\* A completed aggregation left a department with two units of positive count
\* under a division of positive count.
C1_Witness ==
    /\ AfterAggregation
    /\ \E a \in Range(db.avdelningar) :
          /\ Cardinality(UnitsOf(a.id)) >= 2
          /\ \A u \in UnitsOf(a.id) : DocOf(db.enheter, u).beraknat_medlemsantal > 0
          /\ a.beraknat_medlemsantal >= 2
          /\ \E f \in Range(db.forvaltningar) :
                f.id = a.forvaltning_id /\ f.beraknat_medlemsantal >= 2

\* What the workplaces of the Store hold for a unit: per dedicated workplace
\* its entry for the unit, per shared workplace and division entry the entry
\* for the unit under it; no entry counts 0.
DedicatedEntries(enhet_id) ==
    [i \in {j \in DOMAIN db.arbetsplatser : ~db.arbetsplatser[j].alla_forvaltningar} |->
        IF enhet_id \in DOMAIN db.arbetsplatser[i].medlemmar_per_enhet
           THEN db.arbetsplatser[i].medlemmar_per_enhet[enhet_id] ELSE 0]

SharedEntries(enhet_id) ==
    [i \in {j \in DOMAIN db.arbetsplatser : db.arbetsplatser[j].alla_forvaltningar} |->
        Total([f \in DOMAIN db.arbetsplatser[i].medlemmar_per_forvaltning |->
                  IF enhet_id \in DOMAIN db.arbetsplatser[i].medlemmar_per_forvaltning[f].enheter
                     THEN db.arbetsplatser[i].medlemmar_per_forvaltning[f].enheter[enhet_id]
                     ELSE 0])]

\* C2: when calculate_member_counts has completed, every unit's count is the
\* sum of its entries in the dedicated workplaces plus the sum of its entries
\* under every division entry of the shared workplaces, a missing entry
\* counting 0.
C2_UnitCount ==
    AfterAggregation =>
        \A e \in Range(db.enheter) :
            e.beraknat_medlemsantal =
                Total(DedicatedEntries(e.id)) + Total(SharedEntries(e.id))

\* A completed aggregation counted a unit that has members in a dedicated and
\* in a shared workplace, next to a unit with no entry in some workplace.
C2_Witness ==
    /\ AfterAggregation
    /\ \E e \in Range(db.enheter) :
          /\ Total(DedicatedEntries(e.id)) > 0
          /\ Total(SharedEntries(e.id)) > 0
          /\ e.beraknat_medlemsantal = Total(DedicatedEntries(e.id)) + Total(SharedEntries(e.id))
    /\ \E e \in Range(db.enheter), i \in DOMAIN db.arbetsplatser :
          /\ ~db.arbetsplatser[i].alla_forvaltningar
          /\ e.id \notin DOMAIN db.arbetsplatser[i].medlemmar_per_enhet

\* The counts the three passes give the Store d.
Aggregated(d) == ForvaltningPass(d, AvdelningPass(d, EnhetPass(d)))

\* Shared workplace i holds exactly n1 for unit u1 under division f1 and n2
\* for unit u2 under division f2, the units being under those divisions.
SplitEntries(i, u1, f1, n1, u2, f2, n2) ==
    /\ db.arbetsplatser[i].alla_forvaltningar
    /\ f1 # f2
    /\ DocOf(db.avdelningar, u1.avdelning_id).forvaltning_id = f1
    /\ DocOf(db.avdelningar, u2.avdelning_id).forvaltning_id = f2
    /\ db.arbetsplatser[i].medlemmar_per_forvaltning =
          (f1 :> [enheter |-> (u1.id :> n1)]) @@ (f2 :> [enheter |-> (u2.id :> n2)])

\* The unit, its department and its division each count n more in the Store
\* than in the Store d.
ChainRaised(d, u, n) ==
    LET a == u.avdelning_id
        f == DocOf(db.avdelningar, a).forvaltning_id
    IN /\ u.beraknat_medlemsantal = DocOf(d.enheter, u.id).beraknat_medlemsantal + n
       /\ DocOf(db.avdelningar, a).beraknat_medlemsantal =
             DocOf(d.avdelningar, a).beraknat_medlemsantal + n
       /\ DocOf(db.forvaltningar, f).beraknat_medlemsantal =
             DocOf(d.forvaltningar, f).beraknat_medlemsantal + n

\* C3: a shared workplace with n1 for unit U1 under division D1 and n2 for
\* unit U2 under division D2 raises the counts of U1, its department and D1 by
\* n1 and those of U2, its department and D2 by n2, each chain apart from the
\* other: compared with the aggregation of the same Store without the
\* workplace's entries.
C3_SharedSplit ==
    AfterAggregation =>
        \A i \in DOMAIN db.arbetsplatser, u1, u2 \in Range(db.enheter),
           f1, f2 \in Ids(db.forvaltningar), n1, n2 \in 1..MaxMembers :
            SplitEntries(i, u1, f1, n1, u2, f2, n2) =>
                LET without == Aggregated([db EXCEPT
                                   !.arbetsplatser[i].medlemmar_per_forvaltning = <<>>])
                IN ChainRaised(without, u1, n1) /\ ChainRaised(without, u2, n2)

\* A completed aggregation over a shared workplace with different counts for
\* two units of two divisions, one of which has dedicated members as well.
C3_Witness ==
    /\ AfterAggregation
    /\ \E i \in DOMAIN db.arbetsplatser, u1, u2 \in Range(db.enheter),
          f1, f2 \in Ids(db.forvaltningar), n1, n2 \in 1..MaxMembers :
          /\ SplitEntries(i, u1, f1, n1, u2, f2, n2)
          /\ n1 # n2
          /\ Total(DedicatedEntries(u1.id)) > 0
          /\ u1.beraknat_medlemsantal = n1 + Total(DedicatedEntries(u1.id))
          /\ u2.beraknat_medlemsantal = n2

\* =========================================================== cache claims
\* Session s holds a snapshot and indexes (a valid snapshot).
HasSnapshot(s) == {"cached_data", "cached_indexes"} \subseteq DOMAIN st[s]

C5_AllOrNothing ==
    \A s \in Sessions :
        "cached_data" \in DOMAIN st[s] =>
            "cached_indexes" \in DOMAIN st[s] /\ paired[s]

\* The arguments of the last update_cache_after_change call.
Notified(colls, operations) ==
    last.op = "notify" /\ last.coll \in colls /\ last.operation \in operations

\* Session s holds what a full load of the Store as it is now produces.
FreshlyLoaded(s) ==
    /\ HasSnapshot(s)
    /\ st[s].cached_data = load_base_data(db)
    /\ st[s].cached_indexes = create_indexes(load_base_data(db))

\* C9: after update_cache_after_change has returned from a create on the unit,
\* workplace or board collection, the session holds the snapshot and the
\* indexes of a full load of the Store, read in that call.
C9_CreateReloads ==
    (Notified({"enheter", "arbetsplatser", "boards"}, {"create"}) /\ ~last.raised) =>
        FreshlyLoaded(last.s) /\ last.reads = BaseDataReads

ClearCounts(coll) == [i \in DOMAIN coll |-> [coll[i] EXCEPT !.beraknat_medlemsantal = 0]]

Structure(d) ==
    [d EXCEPT !.forvaltningar = ClearCounts(@), !.avdelningar = ClearCounts(@),
              !.enheter = ClearCounts(@)]

\* The step is a form that changed a division, a department, a unit or a
\* workplace (its membership maps included) in the Store.
FormMutation ==
    /\ last'.op \in {"units_form", "workplaces_form"}
    /\ Structure(db') # Structure(db)

\* C6: a form that changed what the counts depend on leaves the flag set, so
\* that the next call of calculate_member_counts (in the rerun that follows
\* the handler, or else later) executes the three passes.
C6_FlagRaised ==
    [][FormMutation => (last'.ran \/ NeedsRecalculation(st'[last'.s]))]_vars

\* The Store is the chain of the scenario: one division, one department under
\* it, one unit under that, and `count` dedicated workplaces, each with a
\* positive entry for the unit and nothing else.
Scenario(d, count) ==
    /\ Len(d.forvaltningar) = 1 /\ Len(d.avdelningar) = 1 /\ Len(d.enheter) = 1
    /\ d.avdelningar[1].forvaltning_id = d.forvaltningar[1].id
    /\ d.enheter[1].avdelning_id = d.avdelningar[1].id
    /\ Len(d.arbetsplatser) = count
    /\ \A i \in DOMAIN d.arbetsplatser :
          /\ ~d.arbetsplatser[i].alla_forvaltningar
          /\ DOMAIN d.arbetsplatser[i].medlemmar_per_enhet = {d.enheter[1].id}

ScenarioCounts(d, n) ==
    /\ d.enheter[1].beraknat_medlemsantal = n
    /\ d.avdelningar[1].beraknat_medlemsantal = n
    /\ d.forvaltningar[1].beraknat_medlemsantal = n

\* C7: with the chain and one dedicated workplace holding n1 for the unit, and
\* the three counts n1, the operation after which a second dedicated workplace
\* holds n2 for the unit (its run calls calculate_member_counts again) leaves
\* the three counts n1 + n2.
C7_EndToEnd ==
    [][\A n1, n2 \in 1..MaxMembers :
          (/\ Scenario(db', 2)
           /\ db'.arbetsplatser[1].medlemmar_per_enhet = (db'.enheter[1].id :> n1)
           /\ db'.arbetsplatser[2].medlemmar_per_enhet = (db'.enheter[1].id :> n2)
           /\ Len(db.enheter) = 1 /\ ScenarioCounts(db, n1)
           /\ Len(db.arbetsplatser) = 2
           /\ db.arbetsplatser[1] = db'.arbetsplatser[1]
           /\ db.arbetsplatser[2].medlemmar_per_enhet = <<>>)
          => ScenarioCounts(db', n1 + n2)]_vars

\* C8: after a form changed a division, a department, a unit or a workplace,
\* the session's next get_cached_data call (in the rerun that follows the
\* handler) reads the Store in full, and the snapshot agrees with the Store.
C8_ReloadAfterForm ==
    [][(FormMutation /\ ~last'.raised) =>
           /\ last'.reads >= BaseDataReads
           /\ "cached_data" \in DOMAIN st'[last'.s]
           /\ Structure(st'[last'.s].cached_data) = Structure(load_base_data(db'))]_vars

\* ------------------------------- aggregation over what the Store may hold
\* The call of calculate_member_counts in session s has ended with c
\* (reached: the call got as far as the Store operation that fails).
Returned(s, c, fail) ==
    LET reached == c.raised /\ (fail \in 1..4 \/ ~UnitLoopRaises(db))
    IN /\ db' = c.db
       /\ st' = [st EXCEPT ![s] = c.ss]
       /\ last' = [Did("aggregate", s, c.raised, c.reads, c.ran, "", "")
                      EXCEPT !.writes = c.writes,
                             !.fail = IF reached THEN fail ELSE 0]
       /\ UNCHANGED <<ids, cap, paired, calls>>

\* calculate_member_counts called by itself in session s, with any Store
\* operation failing.
CalculateMemberCounts(s) ==
    \E fail \in {0} \cup StoreOps, applied \in 0..MaxApplied :
        /\ applied = 0 \/ fail \in {5, 7, 9}
        /\ Returned(s, calculate_member_counts_with(db, st[s], fail, applied), fail)

\* An _id no document of the Store has.
DanglingId == AggChains + 1

\* The membership maps a document may hold for the units: a count of 1 or a
\* value that is no number, for any of the units.
ValueMaps == UNION {[S -> {1, NotANumber}] : S \in SUBSET (1..AggUnits)}

FullMap == [u \in 1..AggUnits |-> 1]

\* The workplace of the first division: any membership map, or some other
\* value in its place.
DedicatedShapes ==
    LET ap == Arbetsplats(1, 1, FALSE, 1)
    IN {[ap EXCEPT !.medlemmar_per_enhet = m] : m \in ValueMaps}
       \cup {[ap EXCEPT !.non_dict = {<<"medlemmar_per_enhet">>}]}

\* The first division's entry of the shared workplace: none, some value
\* that is no dict, a dict without "enheter", a dict whose "enheter" is no
\* dict, or a dict with any membership map; each with the paths it gives to
\* non_dict.
EntryShapes ==
    {[entries |-> <<>>, non_dict |-> {}],
     [entries |-> (1 :> [enheter |-> <<>>]),
      non_dict |-> {<<"medlemmar_per_forvaltning", 1>>}],
     [entries |-> (1 :> [namn |-> 1]), non_dict |-> {}],
     [entries |-> (1 :> [enheter |-> <<>>]),
      non_dict |-> {<<"medlemmar_per_forvaltning", 1, "enheter">>}]}
    \cup {[entries |-> (1 :> [enheter |-> m]), non_dict |-> {}] : m \in ValueMaps}

\* The shared workplace: some other value in place of its map, or the first
\* division's entry in any shape, with or without a well-formed entry of the
\* second division for the second unit.
SharedShapes ==
    LET ap == Arbetsplats(2, 2, TRUE, NoneId)
    IN {[ap EXCEPT !.non_dict = {<<"medlemmar_per_forvaltning">>}]}
       \cup {[ap EXCEPT !.medlemmar_per_forvaltning = e.entries @@ second,
                        !.non_dict = e.non_dict] :
                e \in EntryShapes,
                second \in {<<>>, (2 :> [enheter |-> (AggUnits :> 1)])}}

\* Department i under division pa[i], unit i under department pe[i]; a
\* parent DanglingId is a parent the Store does not hold.
ShapedStore(pa, pe, dedicated, shared) ==
    [forvaltningar |-> [i \in 1..AggChains |-> Forvaltning(i)],
     avdelningar |-> [i \in 1..AggChains |-> Avdelning(i, pa[i])],
     enheter |-> [i \in 1..AggUnits |->
                     Enhet(i, Avdelning(pe[i], IF pe[i] = DanglingId THEN 1 ELSE pa[pe[i]]))],
     arbetsplatser |-> <<dedicated, shared>>,
     personer |-> <<>>, boards |-> <<>>]

\* A Store other writers have filled: either the chains 1-1-1 and 2-2-2 with
\* workplaces of any shape, or any layout, dangling parents included, with
\* well-formed workplaces.
InitShapes ==
    /\ \E pa \in [1..AggChains -> 1..DanglingId], pe \in [1..AggUnits -> 1..DanglingId],
          dedicated \in DedicatedShapes, shared \in SharedShapes :
          /\ \/ pa = [i \in 1..AggChains |-> i] /\ pe = [i \in 1..AggUnits |-> i]
             \/ /\ dedicated = [Arbetsplats(1, 1, FALSE, 1) EXCEPT
                                   !.medlemmar_per_enhet = FullMap]
                /\ shared = [Arbetsplats(2, 2, TRUE, NoneId) EXCEPT
                                !.medlemmar_per_forvaltning =
                                    (1 :> [enheter |-> FullMap])]
          /\ db = ShapedStore(pa, pe, dedicated, shared)
    /\ ids = [c \in Collections |-> Len(db[c])]
    /\ cap = ids
    /\ st = [s \in Sessions |-> <<>>]
    /\ paired = [s \in Sessions |-> FALSE]
    /\ last = Did("init", 0, FALSE, 0, FALSE, "", "")
    /\ calls = NoCalls

\* manage_workplaces.py 679-733, submitted in another session: the member
\* counts of a division's workplace are saved, every unit given the same
\* count; the Store is written when the entered map differs from the stored
\* one.
MembersSaved ==
    /\ \E instance \in {ap \in Range(db.arbetsplatser) :
                            ~ap.alla_forvaltningar /\ IsDict(ap, <<"medlemmar_per_enhet">>)},
          n \in 0..1 :
          LET fields == [u \in FormUnits(db, instance.forvaltning_id) |-> n]
          IN /\ Positive(fields) # instance.medlemmar_per_enhet
             /\ db' = [db EXCEPT !.arbetsplatser =
                          UpdateOne(@, instance.id, "medlemmar_per_enhet", Positive(fields))]
    /\ last' = Did("external", 0, FALSE, 0, FALSE, "", "")
    /\ UNCHANGED <<ids, cap, st, paired, calls>>

NextShapes ==
    \/ CalculateMemberCounts(1)
    \/ MembersSaved
    \/ Render(1)
    \/ GlobalRefresh(1)

SpecShapes == InitShapes /\ [][NextShapes]_vars

\* ====================================================== the people screen
\* manage_people.show, line 21: cached, indexes = get_cached_data(db).
people_head(r, read_ok) ==
    WithOutcome(r, get_cached_data(r.db, r.ss, r.pair, FALSE, read_ok))

\* The run of the people screen up to its forms.
PeopleRun(s) == people_head(Run(db, st[s], paired[s]), TRUE)

\* r2: the run as the handler leaves it; rerun: the handler reached
\* st.rerun(), which starts the next run of the screen.
PeopleForm(s, r2, rerun, operation) ==
    /\ ~PeopleRun(s).raised
    /\ Commit(s, IF r2.raised \/ ~rerun THEN r2 ELSE people_head(r2, TRUE),
              "people_form", "personer", operation)

\* The non-empty selections of the workplace multiselect (lines 96-107): names
\* of the indexed workplaces of the division.
Selections(indexes, forv_id) ==
    SUBSET {a.namn : a \in Range(Get(indexes.arbetsplatser_by_forv, forv_id, <<>>))} \ {{}}

\* manage_people.py 151-186: add a person under the selected division,
\* department and unit of the snapshot, then tell the cache of the create.
AddPerson(s) ==
    /\ CanInsert("personer")
    /\ LET r0 == PeopleRun(s)
       IN /\ ~r0.raised
          /\ \E forv \in Range(r0.ss.cached_data.forvaltningar) :
             \E avd \in Range(Get(r0.ss.cached_indexes.avdelningar_by_forv, forv.id, <<>>)) :
             \E enh \in Range(Get(r0.ss.cached_indexes.enheter_by_avd, avd.id, <<>>)) :
             \E arbetsplats \in Selections(r0.ss.cached_indexes, forv.id) :
                LET person == Person(NewId("personer"), forv.id, enh.id, arbetsplats)
                    d1 == InsertOne(r0.db, "personer", person)
                    r2 == WithOutcome([r0 EXCEPT !.db = d1],
                              update_cache_after_change(d1, r0.ss, r0.pair, "personer",
                                                        "create", TRUE, person, TRUE))
                IN PeopleForm(s, r2, TRUE, "create")
    /\ ids' = [ids EXCEPT !["personer"] = @ + 1]

\* The persons the screen lists for editing: read from the Store, by the
\* divisions of the snapshot (lines 199-202).
ListedPersons(r) ==
    {p \in Range(r.db.personer) :
        \E f \in Range(r.ss.cached_data.forvaltningar) : p.forvaltning_id = f.id}

\* collection.update_one({"_id": id}, {"$set": fields}) of a person
SetPerson(coll, id, forv_id, enhet_id, arbetsplats) ==
    [i \in DOMAIN coll |->
        IF coll[i].id = id
           THEN [coll[i] EXCEPT !.forvaltning_id = forv_id, !.enhet_id = enhet_id,
                                !.arbetsplats = arbetsplats]
           ELSE coll[i]]

\* manage_people.py 364-409: save a person with the division, department and
\* unit selected from the snapshot and the workplaces selected among those
\* indexed for the person's division.  The handler reruns when the Store
\* modified the document and a text field (name, title, telephone, e-mail)
\* differs (text_changed); it calls no cache function.
EditPerson(s) ==
    /\ LET r0 == PeopleRun(s)
       IN /\ ~r0.raised
          /\ \E person \in ListedPersons(r0), text_changed \in BOOLEAN :
             \E forv \in Range(r0.ss.cached_data.forvaltningar) :
             \E avd \in Range(Get(r0.ss.cached_indexes.avdelningar_by_forv, forv.id, <<>>)) :
             \E enh \in Range(Get(r0.ss.cached_indexes.enheter_by_avd, avd.id, <<>>)) :
             \E ny_arbetsplats \in
                   SUBSET {a.namn : a \in Range(Get(r0.ss.cached_indexes.arbetsplatser_by_forv,
                                                    person.forvaltning_id, <<>>))} :
                LET d1 == [r0.db EXCEPT !.personer =
                              SetPerson(@, person.id, forv.id, enh.id, ny_arbetsplats)]
                IN PeopleForm(s, [r0 EXCEPT !.db = d1], text_changed, "update")
    /\ UNCHANGED ids

\* manage_people.py 411-419: delete a person; the handler calls no cache
\* function.
DeletePerson(s) ==
    /\ LET r0 == PeopleRun(s)
       IN /\ ~r0.raised
          /\ \E person \in ListedPersons(r0) :
                PeopleForm(s, [r0 EXCEPT !.db.personer = DeleteOne(@, person.id)],
                           TRUE, "delete")
    /\ UNCHANGED ids

\* manage_people.py 24-26: the screen's refresh button,
\* get_cached_data(db, force_refresh=True), then a rerun.
PeopleRefresh(s) ==
    /\ LET r0 == PeopleRun(s)
           r1 == WithOutcome(r0, get_cached_data(r0.db, r0.ss, r0.pair, TRUE, TRUE))
       IN /\ ~r0.raised
          /\ Commit(s, IF r1.raised THEN r1 ELSE people_head(r1, TRUE),
                    "people_refresh", "", "")
    /\ UNCHANGED ids

\* The people screen is opened, or an interaction of it writes nothing.
PeopleRender(s) ==
    /\ Commit(s, PeopleRun(s), "people_render", "", "")
    /\ UNCHANGED ids

\* A Store the forms have filled: a division, a department and a unit under
\* it, and PeopleNames workplaces of the division; persons are added from the
\* screen.
PeopleStore ==
    [forvaltningar |-> <<Forvaltning(1)>>,
     avdelningar |-> <<Avdelning(1, 1)>>,
     enheter |-> <<Enhet(1, Avdelning(1, 1))>>,
     arbetsplatser |-> [i \in 1..PeopleNames |-> Arbetsplats(i, i, FALSE, 1)],
     personer |-> <<>>, boards |-> <<>>]

InitPeople ==
    /\ db = PeopleStore
    /\ ids = [c \in Collections |-> Len(db[c])]
    /\ cap = [ids EXCEPT !.personer = PeopleDocs]
    /\ st = [s \in Sessions |-> <<>>]
    /\ paired = [s \in Sessions |-> FALSE]
    /\ last = Did("init", 0, FALSE, 0, FALSE, "", "")
    /\ calls = NoCalls

NextPeople ==
    \/ PeopleRender(1)
    \/ AddPerson(1)
    \/ EditPerson(1)
    \/ DeletePerson(1)
    \/ PeopleRefresh(1)

SpecPeople == InitPeople /\ [][NextPeople]_vars

\* =========================================================== people claims
\* C11: after the people form has updated or deleted a person, the session
\* holds the snapshot and the indexes of a full load of the Store as the
\* handler left it, so that the load of the next run returns a person list
\* and person indexes that show the change.
C11_PersonChangeReloads ==
    (last.op = "people_form" /\ last.operation \in {"update", "delete"} /\ ~last.raised) =>
        FreshlyLoaded(last.s)

\* =================================================== cache claims, continued
\* How often document x occurs in list q.
Occurrences(q, x) == Cardinality({i \in DOMAIN q : q[i] = x})

\* The step is update_cache_after_change(db, 'personer', 'create', person) for
\* the person just inserted, in a session that holds a snapshot and indexes.
PersonCreatePatch ==
    /\ last'.op = "notify" /\ last'.coll = "personer" /\ last'.operation = "create"
    /\ last'.data
    /\ HasSnapshot(last'.s)

\* C12: update_cache_after_change for a created person, in a session that
\* holds a snapshot, returns without a Store read and leaves the person once
\* in the snapshot's person list, once in personer_by_forv under the person's
\* division and once in personer_by_arbetsplats under each of the person's
\* workplace names.
C12_PersonCreatePatched ==
    [][PersonCreatePatch =>
          LET ss == st'[last'.s]
              person == db'.personer[Len(db'.personer)]
          IN /\ ~last'.raised
             /\ last'.reads = 0
             /\ Occurrences(ss.cached_data.personer, person) = 1
             /\ Occurrences(Get(ss.cached_indexes.personer_by_forv,
                                person.forvaltning_id, <<>>), person) = 1
             /\ \A n \in person.arbetsplats :
                   Occurrences(Get(ss.cached_indexes.personer_by_arbetsplats, n, <<>>),
                               person) = 1]_vars

\* A person create was patched into a snapshot read before the person
\* existed: no Store read, and the person is in the snapshot under a workplace
\* name.
C12_Witness ==
    /\ Notified({"personer"}, {"create"}) /\ last.data
    /\ ~last.raised /\ last.reads = 0
    /\ HasSnapshot(1)
    /\ \E p \in Range(st[1].cached_data.personer) :
          /\ p \in Range(db.personer)
          /\ p.arbetsplats # {}
          /\ \A n \in p.arbetsplats :
                p \in Range(Get(st[1].cached_indexes.personer_by_arbetsplats, n, <<>>))

\* ===================================================== the flag's claims
\* The step is a call of calculate_member_counts by itself.
AggregateStep == last'.op = "aggregate"

\* C13: called in a session whose flag is False, calculate_member_counts
\* returns without a Store read or batch write, and leaves the Store (every
\* stored count) and the session state (the flag) as they were.
C13_GateSkips ==
    [][(AggregateStep /\ ~NeedsRecalculation(st[last'.s])) =>
          /\ last'.reads = 0
          /\ last'.writes = 0
          /\ ~last'.raised
          /\ db' = db
          /\ st' = st]_vars

\* calculate_member_counts has returned at the gate while the stored counts
\* are not what the three passes would write.
C13_Witness ==
    /\ last.op = "aggregate" /\ last.reads = 0 /\ ~last.ran /\ ~last.raised
    /\ ~NeedsRecalculation(st[1])
    /\ db # Aggregated(db)

\* C14: the first call of calculate_member_counts in a session that has no
\* flag yet executes the three passes unless a Store operation or the data
\* makes it raise; and every call that returns leaves the flag False, be it
\* made by itself or by a run of the units screen.
C14_FreshRunsThenClear ==
    [][(last'.op \in {"aggregate", "render", "global_refresh"} /\ ~last'.raised) =>
          /\ ("needs_recalculation" \notin DOMAIN st[last'.s]) =>
                last'.ran /\ db' = Aggregated(db)
          /\ "needs_recalculation" \in DOMAIN st'[last'.s]
          /\ ~st'[last'.s].needs_recalculation]_vars

\* The first call in a session executed the passes: the session state holds
\* the flag, False, and nothing else, and the Store holds a positive count.
C14_Witness ==
    /\ last.op = "aggregate" /\ last.ran /\ ~last.raised
    /\ st[1] = [needs_recalculation |-> FALSE]
    /\ db = Aggregated(db)
    /\ \E f \in Range(db.forvaltningar) : f.beraknat_medlemsantal > 0

\* C15: the three passes run to the end only in a step that finds the flag
\* set (or absent), or that sets it itself (the global refresh), and they
\* leave it False; so between two events that set the flag the passes run to
\* the end at most once, whatever the number of runs and calls in between.
C15_AtMostOnce ==
    [][last'.ran =>
          /\ NeedsRecalculation(st[last'.s]) \/ last'.op = "global_refresh"
          /\ ~NeedsRecalculation(st'[last'.s])]_vars

\* A run of the screen, and a call of the function, that found the flag
\* False and skipped the passes although the stored counts are out of date.
C15_Witness ==
    /\ last.op \in {"render", "aggregate"} /\ ~last.ran /\ ~last.raised
    /\ ~NeedsRecalculation(st[1])
    /\ "cached_data" \in DOMAIN st[1]
    /\ db # Aggregated(db)

\* C20: a call of calculate_member_counts that raised (a Store read or a
\* batch write failed in one of the passes, or the data made the unit loop
\* raise) leaves the session state as it was, the flag still set or absent;
\* and a call that finds the flag so and does not raise executes the three
\* passes on the Store as the failed call left it.
C20_FailureKeepsFlag ==
    [][AggregateStep =>
          /\ last'.raised => st' = st /\ NeedsRecalculation(st'[last'.s])
          /\ (NeedsRecalculation(st[last'.s]) /\ ~last'.raised) =>
                last'.ran /\ db' = Aggregated(db)]_vars

\* A batch write has failed after the unit pass was written, no value of the
\* data being at fault: the Store holds counts of a half-done recomputation
\* and the flag still reads as set.
C20_Witness ==
    /\ last.op = "aggregate" /\ last.raised /\ last.writes >= 2
    /\ ~UnitLoopRaises(db)
    /\ NeedsRecalculation(st[1])
    /\ db # Aggregated(db)
    /\ \E e \in Range(db.enheter) : e.beraknat_medlemsantal > 0

\* ================================================== claims on stored shapes
\* The counts of the three levels in Store d.
Counts(d) ==
    [c \in {"forvaltningar", "avdelningar", "enheter"} |->
        [i \in DOMAIN d[c] |-> d[c][i].beraknat_medlemsantal]]

\* The step is a call of calculate_member_counts that finds the flag set or
\* absent and in which no Store operation fails.
AnsweredCall ==
    AggregateStep /\ NeedsRecalculation(st[last'.s]) /\ last'.fail = 0

\* A workplace with an empty map in place of every value that is no map.
AsEmptyMaps(ap) ==
    [ap EXCEPT
        !.medlemmar_per_enhet = IF IsDict(ap, <<"medlemmar_per_enhet">>) THEN @ ELSE <<>>,
        !.medlemmar_per_forvaltning =
            IF ~IsDict(ap, <<"medlemmar_per_forvaltning">>) THEN <<>>
            ELSE [f \in DOMAIN @ |->
                     IF ~IsDict(ap, <<"medlemmar_per_forvaltning", f>>)
                        THEN <<>>
                     ELSE IF ~IsDict(ap, <<"medlemmar_per_forvaltning", f, "enheter">>)
                        THEN [enheter |-> <<>>]
                     ELSE @[f]],
        !.non_dict = {}]

\* A workplace with empty maps in both fields if it holds a value that is no
\* map anywhere.
EmptiedIfMalformed(ap) ==
    IF ap.non_dict = {} THEN ap
    ELSE [ap EXCEPT !.medlemmar_per_enhet = <<>>, !.medlemmar_per_forvaltning = <<>>,
                    !.non_dict = {}]

EachAsEmptyMaps(d) ==
    [d EXCEPT !.arbetsplatser = [i \in DOMAIN @ |-> AsEmptyMaps(@[i])]]

EachEmptiedIfMalformed(d) ==
    [d EXCEPT !.arbetsplatser = [i \in DOMAIN @ |-> EmptiedIfMalformed(@[i])]]

\* C16, as the code has it: a call of calculate_member_counts on a Store
\* whose workplaces hold a value that is no map -- in medlemmar_per_enhet, in
\* medlemmar_per_forvaltning, in a division entry or in an entry's "enheter"
\* -- does what it does on the Store with an empty map in place of each such
\* value: it raises in the same cases (never on account of such a value) and
\* writes the same counts; the workplace's other entries still count.
C16_NonMapAsEmptyMap ==
    [][AnsweredCall =>
          /\ last'.raised = UnitLoopRaises(EachAsEmptyMaps(db))
          /\ last'.ran = ~last'.raised
          /\ last'.ran => Counts(db') = Counts(Aggregated(EachAsEmptyMaps(db)))]_vars

\* C16, as the spec has it: the counts a completed call writes are those of
\* the Store in which every workplace that holds a value that is no map has
\* empty maps, so that such a workplace contributes 0 to every unit.
C16_WorkplaceContributesNothing ==
    [][(AnsweredCall /\ last'.ran) =>
          Counts(db') = Counts(Aggregated(EachEmptiedIfMalformed(db)))]_vars

\* The passes ran over a dedicated workplace whose medlemmar_per_enhet is no
\* map and a shared workplace whose first division entry is no dict, while
\* the shared workplace's second entry gave the second unit its count.
C16_Witness ==
    /\ last.op = "aggregate" /\ last.ran
    /\ db.arbetsplatser[1].non_dict = {<<"medlemmar_per_enhet">>}
    /\ db.arbetsplatser[2].non_dict = {<<"medlemmar_per_forvaltning", 1>>}
    /\ db.enheter[AggUnits].beraknat_medlemsantal = 1
    /\ db.enheter[1].beraknat_medlemsantal = 0

\* A workplace with every stored value that is no number taken out of its
\* maps (.get then reads 0 for it).
NumbersOnly(m) == [u \in {x \in DOMAIN m : m[x] # NotANumber} |-> m[u]]

WithNumbersOnly(ap) ==
    [ap EXCEPT
        !.medlemmar_per_enhet = NumbersOnly(@),
        !.medlemmar_per_forvaltning =
            [f \in DOMAIN @ |->
                IF "enheter" \in DOMAIN @[f]
                   THEN [@[f] EXCEPT !.enheter = NumbersOnly(@)]
                   ELSE @[f]]]

EachWithNumbersOnly(d) ==
    [d EXCEPT !.arbetsplatser = [i \in DOMAIN @ |-> WithNumbersOnly(@[i])]]

\* C17: a call of calculate_member_counts on a Store in which a membership
\* map holds a value that is no number does not raise, and writes the counts
\* of the Store with 0 in place of each such value.
C17_NonNumericIsZero ==
    [][AnsweredCall =>
          /\ ~last'.raised
          /\ Counts(db') = Counts(Aggregated(EachWithNumbersOnly(EachAsEmptyMaps(db))))]_vars

\* The units whose department, and the departments whose division, the Store
\* does not hold.
DanglingUnits(d) == {e \in Range(d.enheter) : e.avdelning_id \notin Ids(d.avdelningar)}
DanglingDepartments(d) ==
    {a \in Range(d.avdelningar) : a.forvaltning_id \notin Ids(d.forvaltningar)}

\* The sum of the counts of a set of documents.
SumOfCounts(docs) == Total([x \in docs |-> x.beraknat_medlemsantal])

\* C18: on a Store that holds a unit whose avdelning_id is no department's
\* _id, or a department whose forvaltning_id is no division's _id, a run of
\* the units screen and the load after it do not raise; a load that read the
\* Store leaves its snapshot and indexes; and when the passes ran, every
\* department's count is the sum over the units that name it and every
\* division's the sum over the departments that name it, so that the dangling
\* documents are in no sum.
C18_DanglingInNoSum ==
    (/\ last.op \in {"render", "global_refresh"}
     /\ DanglingUnits(db) \cup DanglingDepartments(db) # {}) =>
        /\ ~last.raised
        /\ HasSnapshot(last.s)
        /\ last.reads = BaseDataReads => FreshlyLoaded(last.s)
        /\ last.ran =>
              /\ \A a \in Range(db.avdelningar) :
                    a.beraknat_medlemsantal =
                        SumOfCounts({e \in Range(db.enheter) \ DanglingUnits(db) :
                                        e.avdelning_id = a.id})
              /\ \A f \in Range(db.forvaltningar) :
                    f.beraknat_medlemsantal =
                        SumOfCounts({a \in Range(db.avdelningar) \ DanglingDepartments(db) :
                                        a.forvaltning_id = f.id})

\* A first run has recomputed and loaded a Store in which a unit with members
\* names no department and a department with members names no division.
C18_Witness ==
    /\ last.op = "render" /\ last.ran /\ ~last.raised
    /\ last.reads = BaseDataReads
    /\ FreshlyLoaded(1)
    /\ \E e \in DanglingUnits(db) : e.beraknat_medlemsantal > 0
    /\ \E a \in DanglingDepartments(db) : a.beraknat_medlemsantal > 0

\* The step is a reload in which a Store read failed: a forced
\* get_cached_data, refresh_cache, or update_cache_after_change on its
\* reloading path, that raised at the first read.
FailedReload ==
    /\ last'.op \in {"load_forced", "refresh_cache", "notify"}
    /\ last'.raised
    /\ last'.reads = 1

\* C19: a reload in which a Store read failed leaves the snapshot and the
\* indexes the session held before it, present and unchanged.
C19_FailedReloadKeepsSnapshot ==
    [][(FailedReload /\ HasSnapshot(last'.s)) =>
          /\ {"cached_data", "cached_indexes"} \subseteq DOMAIN st'[last'.s]
          /\ st'[last'.s].cached_data = st[last'.s].cached_data
          /\ st'[last'.s].cached_indexes = st[last'.s].cached_indexes]_vars


\* ================================================ two sessions on one Store
\* Every session calls the cache functions and calculate_member_counts, in
\* any order, on the one Store: a person is created and deleted, a department
\* is moved to another division.
SessionLoad == \E s \in Sessions, force_refresh \in BOOLEAN, read_ok \in BOOLEAN :
                   GetCachedData(s, force_refresh, read_ok)
SessionRefresh == \E s \in Sessions : RefreshCache(s, TRUE)
SessionCreate == \E s \in Sessions, has_data \in BOOLEAN :
                     CreateAndNotify(s, "personer", has_data, TRUE)
SessionUpdate == \E s \in Sessions : UpdateAndNotify(s, "avdelningar", TRUE)
SessionDelete == \E s \in Sessions : DeleteAndNotify(s, "personer", TRUE)
SessionAggregate == \E s \in Sessions :
                        Returned(s, calculate_member_counts(db, st[s]), 0)

NextSessions ==
    \/ SessionLoad
    \/ SessionRefresh
    \/ SessionCreate
    \/ SessionUpdate
    \/ SessionDelete
    \/ SessionAggregate

\* A Store with two divisions, a department and a unit under the first, and a
\* workplace with a member of the unit, not counted yet.
InitSessions ==
    /\ db = [EmptyStore EXCEPT
                !.forvaltningar = <<Forvaltning(1), Forvaltning(2)>>,
                !.avdelningar = <<Avdelning(1, 1)>>,
                !.enheter = <<Enhet(1, Avdelning(1, 1))>>,
                !.arbetsplatser = <<[Arbetsplats(1, 1, FALSE, 1) EXCEPT
                                        !.medlemmar_per_enhet = (1 :> 1)]>>]
    /\ ids = [c \in Collections |-> Len(db[c])]
    /\ cap = [ids EXCEPT !.personer = SessionDocs]
    /\ st = [s \in Sessions |-> <<>>]
    /\ paired = [s \in Sessions |-> FALSE]
    /\ last = Did("init", 0, FALSE, 0, FALSE, "", "")
    /\ calls = NoCalls

SpecSessions == InitSessions /\ [][NextSessions]_vars



InCall(s, pc) == calls[s].pc = pc

\* The step of session s is done: the call goes on at pc with its locals.
Goes(s, pc, locals) ==
    /\ calls' = [calls EXCEPT ![s] = [locals EXCEPT !.pc = pc]]
    /\ last' = Did("aggregate_step", s, FALSE, 0, FALSE, "", "")
    /\ UNCHANGED <<ids, cap, paired>>

\* Lines 47-54: past the gate, the four collections are read.
BeginCall(s) ==
    /\ InCall(s, "idle")
    /\ NeedsRecalculation(st[s])
    /\ Goes(s, "unit_batch",
            [Idle EXCEPT !.enheter = db.enheter, !.avdelningar = db.avdelningar,
                         !.forvaltningar = db.forvaltningar,
                         !.arbetsplatser = db.arbetsplatser])
    /\ UNCHANGED <<db, st>>

\* Lines 66-99: the unit loop over the workplaces as read, and the unit batch.
UnitBatch(s) ==
    /\ InCall(s, "unit_batch")
    /\ ~UnitLoopRaises(calls[s])
    /\ db' = [db EXCEPT !.enheter =
                 bulk_write(@, enhet_updates(calls[s].enheter, calls[s].arbetsplatser))]
    /\ Goes(s, "reread_units", calls[s])
    /\ UNCHANGED st

\* Line 102: the units are read again.
RereadUnits(s) ==
    /\ InCall(s, "reread_units")
    /\ Goes(s, "department_batch", [calls[s] EXCEPT !.enheter = db.enheter])
    /\ UNCHANGED <<db, st>>

\* Lines 105-122: the department sums over the units as read again, and the
\* department batch.
DepartmentBatch(s) ==
    /\ InCall(s, "department_batch")
    /\ db' = [db EXCEPT !.avdelningar =
                 bulk_write(@, avdelning_updates(calls[s].avdelningar, calls[s].enheter))]
    /\ Goes(s, "reread_departments", calls[s])
    /\ UNCHANGED st

\* Line 125: the departments are read again.
RereadDepartments(s) ==
    /\ InCall(s, "reread_departments")
    /\ Goes(s, "division_batch", [calls[s] EXCEPT !.avdelningar = db.avdelningar])
    /\ UNCHANGED <<db, st>>

\* Lines 128-148: the division sums over the departments as read again, the
\* division batch, and the flag cleared; the call returns.
DivisionBatch(s) ==
    /\ InCall(s, "division_batch")
    /\ db' = [db EXCEPT !.forvaltningar =
                 bulk_write(@, forvaltning_updates(calls[s].forvaltningar,
                                                   calls[s].avdelningar))]
    /\ st' = [st EXCEPT ![s] = SetKey(@, "needs_recalculation", FALSE)]
    /\ calls' = [calls EXCEPT ![s] = Idle]
    /\ last' = [Did("aggregate", s, FALSE, 6, TRUE, "", "") EXCEPT !.writes = 3]
    /\ UNCHANGED <<ids, cap, paired>>

\* The membership form of a third session saves while the two calls run.
WriterSaves == MembersSaved /\ UNCHANGED calls

RaceBegin == \E s \in Sessions : BeginCall(s)
RaceUnitBatch == \E s \in Sessions : UnitBatch(s)
RaceRereadUnits == \E s \in Sessions : RereadUnits(s)
RaceDepartmentBatch == \E s \in Sessions : DepartmentBatch(s)
RaceRereadDepartments == \E s \in Sessions : RereadDepartments(s)
RaceDivisionBatch == \E s \in Sessions : DivisionBatch(s)

NextRace ==
    \/ RaceBegin
    \/ RaceUnitBatch
    \/ RaceRereadUnits
    \/ RaceDepartmentBatch
    \/ RaceRereadDepartments
    \/ RaceDivisionBatch
    \/ WriterSaves

\* Two sessions that have not recomputed yet, on a Store the forms have
\* filled (the layouts of InitAgg).
SpecRace == InitAgg /\ [][NextRace]_vars

\* Every session has made its call of calculate_member_counts, and none is
\* in one.
BothFinished ==
    \A s \in Sessions : InCall(s, "idle") /\ ~NeedsRecalculation(st[s])

\* C22: when two sessions have run calculate_member_counts with their Store
\* operations interleaved, and the membership form has saved in between, then
\* once both calls have returned every department's count is the sum of its
\* units' counts and every division's the sum of its departments' counts.
C22_RacedSums ==
    BothFinished =>
        /\ \A a \in Range(db.avdelningar) :
              a.beraknat_medlemsantal =
                  SumOfCounts({e \in Range(db.enheter) : e.avdelning_id = a.id})
        /\ \A f \in Range(db.forvaltningar) :
              f.beraknat_medlemsantal =
                  SumOfCounts({a \in Range(db.avdelningar) : a.forvaltning_id = f.id})



\* ================================================= the organisation forms
\* The people form of another session adds a person under a unit of the
\* Store (manage_people.py 151-180).
PersonAdded ==
    /\ CanInsert("personer")
    /\ \E doc \in NewDocs(db, "personer") : db' = InsertOne(db, "personer", doc)
    /\ ids' = [ids EXCEPT !.personer = @ + 1]
    /\ last' = Did("external", 0, FALSE, 0, FALSE, "personer", "create")
    /\ UNCHANGED <<cap, st, paired, calls>>

\* One session's forms of the units screen, from an empty Store.
InitOrg ==
    /\ db = EmptyStore
    /\ ids = NoIds
    /\ cap = [NoIds EXCEPT !.forvaltningar = OrgForv, !.avdelningar = OrgDocs,
                           !.enheter = OrgDocs, !.personer = OrgDocs]
    /\ st = [s \in Sessions |-> <<>>]
    /\ paired = [s \in Sessions |-> FALSE]
    /\ last = Did("init", 0, FALSE, 0, FALSE, "", "")
    /\ calls = NoCalls

NextOrg ==
    \/ Render(1)
    \/ AddForvaltning(1)
    \/ DeleteForvaltning(1)
    \/ AddAvdelning(1)
    \/ EditAvdelning(1)
    \/ DeleteAvdelning(1)
    \/ AddEnhet(1)
    \/ EditEnhet(1)
    \/ DeleteEnhet(1)
    \/ GlobalRefresh(1)
    \/ PersonAdded

SpecOrg == InitOrg /\ [][NextOrg]_vars

\* C23: whatever the organisation forms have done, every unit of the Store
\* names the division that the department it names is under; also after a
\* department was moved to another division.
C23_UnitInDepartmentsDivision ==
    \A e \in Range(db.enheter), a \in Range(db.avdelningar) :
        e.avdelning_id = a.id => e.forvaltning_id = a.forvaltning_id

\* C24: whatever the forms of one session have done, every department of the
\* Store names a division the Store holds and every unit names a department
\* the Store holds.
C24_ParentsExist ==
    /\ \A a \in Range(db.avdelningar) : a.forvaltning_id \in Ids(db.forvaltningar)
    /\ \A e \in Range(db.enheter) : e.avdelning_id \in Ids(db.avdelningar)



\* The documents of collection c that the step takes out of the Store.
Deleted(c) == {x \in Range(db[c]) : x.id \notin Ids(db'[c])}

\* The Store holds a document of collection c whose parent_field names id.
HasChild(d, c, parent_field, id) == \E x \in Range(d[c]) : x[parent_field] = id

\* C25: no step takes out of the Store a division that a department of the
\* Store names, a department that a unit names or a unit that a person names;
\* and a delete form of the units screen changes nothing else in the Store, so
\* that a delete of a document with such a child leaves the Store as it was.
\* The child is looked up in the Store, whatever the session's lists and
\* snapshot hold.
C25_DeleteGuarded ==
    [][/\ \A f \in Deleted("forvaltningar") :
             ~HasChild(db, "avdelningar", "forvaltning_id", f.id)
       /\ \A a \in Deleted("avdelningar") : ~HasChild(db, "enheter", "avdelning_id", a.id)
       /\ \A e \in Deleted("enheter") : ~HasChild(db, "personer", "enhet_id", e.id)
       /\ (last'.op = "units_form" /\ last'.operation = "delete") =>
             /\ \A c \in Collections \ {last'.coll} : Structure(db')[c] = Structure(db)[c]
             /\ Range(Structure(db')[last'.coll]) \subseteq Range(Structure(db)[last'.coll])
             /\ Cardinality(Deleted(last'.coll)) <= 1]_vars

\* The delete form of the only unit was submitted and the unit is still in
\* the Store, a person of another session naming it; the session's snapshot
\* holds no person.
C25_Witness ==
    /\ last.op = "units_form" /\ last.coll = "enheter" /\ last.operation = "delete"
    /\ ~last.raised
    /\ Len(db.enheter) = 1
    /\ HasChild(db, "personer", "enhet_id", db.enheter[1].id)
    /\ HasChild(db, "enheter", "avdelning_id", db.avdelningar[1].id)
    /\ "cached_data" \in DOMAIN st[1]
    /\ st[1].cached_data.personer = <<>>



\* ==================================================== claims on the indexes
\* The step is a load that read the Store in full and returned: an unforced
\* get_cached_data that missed, a forced one, or refresh_cache.
FullLoad ==
    /\ last.op \in {"load", "load_forced", "refresh_cache"}
    /\ ~last.raised
    /\ last.reads = BaseDataReads

CoreCollections == {"forvaltningar", "avdelningar", "enheter", "arbetsplatser", "personer"}

\* C26: after a full load, id_lookup holds, for each of the five core
\* collections, a map whose keys are the _ids of the snapshot's documents
\* of that collection, each key mapped to the document of that _id.
C26_ByIdComplete ==
    FullLoad =>
        \A c \in CoreCollections :
            LET snapshot == st[last.s].cached_data[c]
                id_lookup == st[last.s].cached_indexes.id_lookup
            IN /\ c \in DOMAIN id_lookup
               /\ DOMAIN id_lookup[c] = Ids(snapshot)
               /\ \A id \in Ids(snapshot) :
                     id_lookup[c][id] \in Range(snapshot) /\ id_lookup[c][id].id = id

\* C27: in every state in which a session holds a snapshot and indexes,
\* whatever calls of get_cached_data, refresh_cache and
\* update_cache_after_change came before, the indexes are those that
\* create_indexes builds from the snapshot.
C27_IndexesOfSnapshot ==
    \A s \in Sessions :
        HasSnapshot(s) => st[s].cached_indexes = create_indexes(st[s].cached_data)

\* C30: a call of update_cache_after_change that reports a create, in a
\* session that holds a snapshot, returns with the created document in the
\* snapshot's list of its collection, be it appended or reloaded, with or
\* without a document given.
C30_CreateReachesCache ==
    [][(/\ last'.op = "notify" /\ last'.operation = "create"
        /\ ~last'.raised
        /\ HasSnapshot(last'.s)) =>
          /\ "cached_data" \in DOMAIN st'[last'.s]
          /\ db'[last'.coll][Len(db'[last'.coll])]
                \in Range(st'[last'.s].cached_data[last'.coll])]_vars



\* ========================================== the counts a session is shown
\* C28: when a call of calculate_member_counts has run the passes in a
\* session that holds a snapshot, the session's next unforced get_cached_data
\* returns a snapshot in which every division, department and unit carries
\* the count the Store holds.
C28_LoadAfterAggregation ==
    [][(/\ last.op = "aggregate" /\ last.ran
        /\ "cached_data" \in DOMAIN st[last.s]
        /\ last'.op = "load" /\ last'.s = last.s /\ ~last'.raised) =>
          Counts(st'[last.s].cached_data) = Counts(db')]_vars



\* C29: the sidebar's refresh button drops the snapshot and the indexes and
\* sets the flag; in the run that follows, the three passes run to the end
\* before the first get_cached_data, which reads the Store in full, so that
\* the snapshot and the indexes the session then holds are those of the Store
\* with the counts the passes have just written, and the flag is False.
C29_RefreshRecomputesThenLoads ==
    [][(last'.op = "global_refresh" /\ ~last'.raised) =>
          /\ last'.ran
          /\ db' = Aggregated(db)
          /\ last'.reads = BaseDataReads
          /\ {"cached_data", "cached_indexes"} \subseteq DOMAIN st'[last'.s]
          /\ st'[last'.s].cached_data = load_base_data(db')
          /\ st'[last'.s].cached_indexes = create_indexes(load_base_data(db'))
          /\ ~NeedsRecalculation(st'[last'.s])]_vars

\* The refresh button was pressed and the run after it has recomputed and
\* loaded: the snapshot carries a division count of two members and a unit
\* count that is the sum of a dedicated and a shared entry.
C29_Witness ==
    /\ last.op = "global_refresh" /\ last.ran /\ ~last.raised
    /\ last.reads = BaseDataReads
    /\ FreshlyLoaded(1)
    /\ \E f \in Range(st[1].cached_data.forvaltningar) : f.beraknat_medlemsantal >= 2
    /\ \E e \in Range(st[1].cached_data.enheter) :
          /\ Total(DedicatedEntries(e.id)) > 0
          /\ Total(SharedEntries(e.id)) > 0
          /\ e.beraknat_medlemsantal = Total(DedicatedEntries(e.id)) + Total(SharedEntries(e.id))


====
